---- MODULE Spec2Model ----
(***************************************************************************)
(* yapyseq: the sequence runner (yapyseq/sequencerunner.py) driving a      *)
(* sequence described through SequenceAnalyzer                             *)
(* (yapyseq/sequenceanalyzer.py).  The scheduler is single threaded; every *)
(* function node runs in its own process and reports through one queue.    *)
(* Next to the runner: one invocation of FunctionNode.run with its         *)
(* wrappers (yapyseq/nodes.py) and SequenceReader.check_sequence_file      *)
(* (yapyseq/sequencereader.py), each with a specification of its own.      *)
(***************************************************************************)
EXTENDS Integers, Sequences, FiniteSets, TLC

VARIABLES
    seq,                    \* the loaded sequence description and constants
    status,                 \* SequenceRunner.status
    variables,              \* SequenceRunner._variables
    read_only_var,          \* SequenceRunner._read_only_var
    new_nodes,              \* SequenceRunner._new_nodes
    running_nodes,          \* SequenceRunner._running_nodes: nid -> process
    parallel_sync_history,  \* SequenceRunner._parallel_sync_history
    result_queue,           \* SequenceRunner._result_queue
    pc,                     \* position of the scheduler inside run()
    new_nodes_iter,         \* run(): the copy of new_nodes being iterated
    nodes_to_start,         \* run(): the list of function nodes to start
    procs,                  \* every process started so far, by process id
    clock,                  \* the wall clock read by time()
    raised,                 \* the exception run() ended with, or "none"
    handled,                \* history: the results run() has received, in order
    \* FunctionNode.run (nodes.py)
    self,                   \* the FunctionNode as constructed
    run_pc,                 \* position inside FunctionNode.run
    run_variables,          \* the dict given to run() as `variables`
    wrapper_objects,        \* WrappedNode._wrapper_objects, insertion order
    wrappers_pre_success,   \* WrappedNode._wrappers_pre_success
    cursor,                 \* the wrappers the current loop still has to visit
    pre_exc,                \* run(): pre_exc
    func_res,               \* run(): (func_ret, func_exc), or "unset"
    post_exc,               \* run(): post_exc
    sub_process,            \* _run_function_with_timeout: the sub-process
    sub_result_queue,       \* _run_function_with_timeout: its queue
    node_result_queue,      \* the result_queue given to run()
    calls,                  \* history: the calls of user code, in order
    invocation,             \* how many times run() was called on the node
    \* SequenceReader.check_sequence_file (sequencereader.py)
    seq_file,               \* the sequence file given to the check
    check_pc,               \* position inside check_sequence_file
    to_browse,              \* the nodes the last loop still has to browse
    check_raised,           \* the exception the check ended with, or "none"
    \* FunctionGrabber (functiongrabber.py)
    directory,              \* the directory tree given to the imports
    sys_path,               \* sys.path: the directories the imports appended
    sys_modules,            \* sys.modules: module name -> the file loaded
    imported_functions,     \* FunctionGrabber._imported_functions
    imported_wrappers,      \* FunctionGrabber._imported_wrappers
    grab_call,              \* history: the last call and how it ended
    \* Node.previous_node_id (nodes.py)
    node_obj,               \* a Node: nid, name and _previous_node_id
    accesses                \* history: the accesses of previous_node_id

node_vars == <<self, run_pc, run_variables, wrapper_objects,
               wrappers_pre_success, cursor, pre_exc, func_res, post_exc,
               sub_process, sub_result_queue, node_result_queue, calls,
               invocation>>

reader_vars == <<seq_file, check_pc, to_browse, check_raised>>

grabber_vars == <<directory, sys_path, sys_modules, imported_functions,
                  imported_wrappers, grab_call>>

property_vars == <<node_obj, accesses>>

lib_vars == <<grabber_vars, property_vars>>

vars == <<seq, status, variables, read_only_var, new_nodes, running_nodes,
          parallel_sync_history, result_queue, pc, new_nodes_iter,
          nodes_to_start, procs, clock, raised, handled, node_vars,
          reader_vars, lib_vars>>

-----------------------------------------------------------------------------
(* Python values *)

PyNone == [t |-> "NoneType"]
PyBool(b) == [t |-> "bool", b |-> b]
PyInt(n) == [t |-> "int", n |-> n]
PyStr(s) == [t |-> "str", s |-> s]
PyFloat(n) == [t |-> "float", n |-> n]
PyDict == [t |-> "dict"]
PyError(name) == [t |-> "error", name |-> name]

\* A finite mapping without a key / with one more key
DictPop(d, k) == [x \in DOMAIN d \ {k} |-> d[x]]
DictSet(d, k, v) == [x \in DOMAIN d \cup {k} |-> IF x = k THEN v ELSE d[x]]
EmptyDict == [x \in {} |-> PyNone]

\* The named tuples of sequencerunner.py
ExceptInfo(is_raised, name) == [is_raised |-> is_raised, name |-> name]
NodeResult(node_id, exception, returned) ==
    [node_id |-> node_id, exception |-> exception, returned |-> returned]
\* Mutant of NewNode: the node that led to the new one is not recorded
NewNode_Unlinked(node_id, previous_node_id) ==
    [node_id |-> node_id, previous_node_id |-> PyNone]

NewNode(node_id, previous_node_id) ==
    [node_id |-> node_id, previous_node_id |-> previous_node_id]

-----------------------------------------------------------------------------
(* Expressions of a sequence file, as eval() sees them *)

NoCondition == [k |-> "none"]
Lit(v) == [k |-> "lit", v |-> v]
Name(n) == [k |-> "name", name |-> n]
IsRaised(nid) == [k |-> "is_raised", nid |-> nid]
NotRaised(nid) == [k |-> "not_raised", nid |-> nid]
WrapperResult(name) == [k |-> "wrapper", name |-> name]
Plus(n, i) == [k |-> "plus", name |-> n, i |-> i]
Equals(n, i) == [k |-> "equals", name |-> n, i |-> i]

\* eval(expr, None, variables)
Eval(expr, vs) ==
    CASE expr.k = "lit" -> expr.v
      [] expr.k = "name" ->
            IF expr.name \notin DOMAIN vs THEN PyError("NameError")
            ELSE IF expr.name = "results" THEN PyDict
            ELSE vs[expr.name]
      [] expr.k = "is_raised" ->
            IF expr.nid \notin DOMAIN vs["results"] THEN PyError("KeyError")
            ELSE PyBool(vs["results"][expr.nid].exception.is_raised)
      [] expr.k = "not_raised" ->
            IF expr.nid \notin DOMAIN vs["results"] THEN PyError("KeyError")
            ELSE PyBool(~vs["results"][expr.nid].exception.is_raised)
      [] expr.k = "wrapper" ->
            IF "wrappers" \notin DOMAIN vs THEN PyError("NameError")
            ELSE IF expr.name \notin DOMAIN vs["wrappers"]
            THEN PyError("KeyError")
            ELSE vs["wrappers"][expr.name]
      [] expr.k = "plus" ->
            IF expr.name \notin DOMAIN vs THEN PyError("NameError")
            ELSE IF vs[expr.name].t # "int" THEN PyError("TypeError")
            ELSE PyInt(vs[expr.name].n + expr.i)
      [] expr.k = "equals" ->
            IF expr.name \notin DOMAIN vs THEN PyError("NameError")
            ELSE PyBool(vs[expr.name] = PyInt(expr.i))

-----------------------------------------------------------------------------
(* The function directory given to the runner *)

\* params: the keyword parameters of the function; body: what a call does
\* once its arguments are bound.
FunctionDir ==
    [return_hello_world |-> [params |-> {}, body |-> "return_str"],
     return_timestamp_after_sleep |->
        [params |-> {"sleep_time"}, body |-> "return_time"],
     return_arg |-> [params |-> {"arg"}, body |-> "return_arg"],
     raise_runtime_error |-> [params |-> {}, body |-> "raise"],
     never_return |-> [params |-> {}, body |-> "hang"]]

-----------------------------------------------------------------------------
(* Bounds of the model *)

\* The number of processes one run may start (a sequence with a loop would
\* start processes for ever)
MaxProcs == 6

\* The number of wrappers a function node may declare
MaxWrappers == 2

\* The number of nodes of a sequence file given to the check
MaxNodes == 2

-----------------------------------------------------------------------------
(* Sequence files.  An optional key of a node is <<>> when omitted and <<v>>
   when given. *)

Node(type) ==
    [type |-> type, function |-> "", arguments |-> <<>>, timeout |-> <<>>,
     return |-> <<>>, assignations |-> <<>>, is_test |-> FALSE]
FunctionNode(function, arguments, timeout) ==
    [Node("function") EXCEPT !.function = function, !.arguments = arguments,
                             !.timeout = timeout]
ReturningNode(function, arguments, return) ==
    [Node("function") EXCEPT !.function = function, !.arguments = arguments,
                             !.return = <<return>>]
TestNode(function, arguments) ==
    [Node("function") EXCEPT !.function = function, !.arguments = arguments,
                             !.is_test = TRUE]
VariableNode(type, assignations) ==
    [Node(type) EXCEPT !.assignations = assignations]
Transition(id, source, target, condition) ==
    [id |-> id, source |-> source, target |-> target, condition |-> condition]
Sequence(name, constants, nodes, transitions) ==
    [name |-> name, constants |-> constants, nodes |-> nodes,
     transitions |-> transitions]

NoArgs == <<EmptyDict>>
OneArg(a, v) == [x \in {a} |-> v]
Sleep(n) == <<[x \in {"sleep_time"} |-> n]>>
Hello == FunctionNode("return_hello_world", NoArgs, <<>>)
Stamp == FunctionNode("return_timestamp_after_sleep", Sleep(1), <<>>)

\* Start(0) -> Func(1) -> Stop(2), the function node written without arguments
SeqOneFunctionNode ==
    Sequence("one_function_node", EmptyDict,
        (0 :> Node("start")) @@
        (1 :> FunctionNode("return_hello_world", <<>>, <<>>)) @@
        (2 :> Node("stop")),
        <<Transition(0, 0, 1, NoCondition), Transition(1, 1, 2, NoCondition)>>)

\* Start(0) -> Func(1, return: spam) -> Stop(2)
SeqReturnVariable ==
    Sequence("return_variable", EmptyDict,
        (0 :> Node("start")) @@
        (1 :> ReturningNode("return_hello_world", NoArgs, "spam")) @@
        (2 :> Node("stop")),
        <<Transition(0, 0, 1, NoCondition), Transition(1, 1, 2, NoCondition)>>)

\* Start(0) -> Func(2) -> Split(1) -> {Func(3), Func(4)} -> Sync(6) -> Func(5)
\* -> Stop(7)
SeqSimpleParallel ==
    Sequence("simple_parallel", EmptyDict,
        (0 :> Node("start")) @@ (1 :> Node("parallel_split")) @@
        (2 :> Stamp) @@ (3 :> Stamp) @@ (4 :> Stamp) @@ (5 :> Stamp) @@
        (6 :> Node("parallel_sync")) @@ (7 :> Node("stop")),
        <<Transition(0, 0, 2, NoCondition), Transition(1, 2, 1, NoCondition),
          Transition(2, 1, 3, NoCondition), Transition(3, 1, 4, NoCondition),
          Transition(4, 3, 6, NoCondition), Transition(5, 4, 6, NoCondition),
          Transition(6, 6, 5, NoCondition), Transition(7, 5, 7, NoCondition)>>)

\* Start(0) -> Func(1: never returns, timeout 1) -> Func(2: raises)
\* -> Func(3) -> Stop(4), run with the constant spam = 'egg'
SeqTimeout ==
    Sequence("timeout", [x \in {"spam"} |-> PyStr("egg")],
        (0 :> Node("start")) @@
        (1 :> FunctionNode("never_return", NoArgs, <<1>>)) @@
        (2 :> FunctionNode("raise_runtime_error", NoArgs, <<>>)) @@
        (3 :> Hello) @@ (4 :> Node("stop")),
        <<Transition(0, 0, 1, NoCondition), Transition(1, 1, 2, NoCondition),
          Transition(2, 2, 3, NoCondition), Transition(3, 3, 4, NoCondition)>>)

\* Start(0) -> Variable(1: c = "1") -> Stop(2) where c is a constant; the
\* node type is spelled as get_assignations expects it ...
SeqReadOnlyVariable ==
    Sequence("readonly", [x \in {"c"} |-> PyInt(0)],
        (0 :> Node("start")) @@
        (1 :> VariableNode("variable", <<<<"c", Lit(PyInt(1))>>>>)) @@
        (2 :> Node("stop")),
        <<Transition(0, 0, 1, NoCondition), Transition(1, 1, 2, NoCondition)>>)

\* ... and as _manage_special_node expects it, with a writable name first
SeqReadOnlySeqVar ==
    Sequence("readonly_seq_var", [x \in {"c"} |-> PyInt(0)],
        (0 :> Node("start")) @@
        (1 :> VariableNode("seq_var", <<<<"spam", Lit(PyStr("egg"))>>,
                                        <<"c", Lit(PyInt(1))>>>>)) @@
        (2 :> Node("stop")),
        <<Transition(0, 0, 1, NoCondition), Transition(1, 1, 2, NoCondition)>>)

\* Start(0) -> Split(1) -> {Func(2), Func(3), Func(4)}, Func(3) -> Func(2),
\* Func(2) -> Stop(5), Func(4) -> Stop(5): Func(2) is reached twice
SeqTwoWays ==
    Sequence("two_ways", EmptyDict,
        (0 :> Node("start")) @@ (1 :> Node("parallel_split")) @@
        (2 :> Hello) @@ (3 :> Hello) @@ (4 :> Hello) @@ (5 :> Node("stop")),
        <<Transition(0, 0, 1, NoCondition), Transition(1, 1, 2, NoCondition),
          Transition(2, 1, 3, NoCondition), Transition(3, 1, 4, NoCondition),
          Transition(4, 3, 2, NoCondition), Transition(5, 2, 5, NoCondition),
          Transition(6, 4, 5, NoCondition)>>)

\* Start(0) -> Func(1, timeout 1); Func(1) -> Stop(2) unless it failed,
\* Func(1) -> Func(3) -> Stop(2) if it failed
SeqConditional ==
    Sequence("conditional", EmptyDict,
        (0 :> Node("start")) @@
        (1 :> FunctionNode("return_timestamp_after_sleep", Sleep(1), <<1>>)) @@
        (2 :> Node("stop")) @@ (3 :> Hello),
        <<Transition(0, 0, 1, NoCondition), Transition(1, 1, 2, NotRaised(1)),
          Transition(2, 1, 3, IsRaised(1)), Transition(3, 3, 2, NoCondition)>>)

\* Start(0) -> Func(1); Func(1) has two fulfilled transitions, to Stop(2)
\* and to Func(3)
SeqTwoTargets ==
    Sequence("two_targets", [x \in {"flag"} |-> PyBool(TRUE)],
        (0 :> Node("start")) @@ (1 :> Hello) @@ (2 :> Node("stop")) @@
        (3 :> Hello),
        <<Transition(0, 0, 1, NoCondition), Transition(1, 1, 2, Name("flag")),
          Transition(2, 1, 3, NoCondition), Transition(3, 3, 2, NoCondition)>>)

\* Start(0) has two fulfilled transitions to different targets
SeqStartTwoTargets ==
    Sequence("start_two_targets", EmptyDict,
        (0 :> Node("start")) @@ (1 :> Hello) @@ (2 :> Node("stop")),
        <<Transition(0, 0, 1, NoCondition), Transition(1, 0, 2, NoCondition),
          Transition(2, 1, 2, NoCondition)>>)

\* Start(0) and Func(1) each have two fulfilled transitions to one target
SeqSameTarget ==
    Sequence("same_target", [x \in {"flag"} |-> PyBool(TRUE)],
        (0 :> Node("start")) @@ (1 :> Hello) @@ (2 :> Node("stop")),
        <<Transition(0, 0, 1, NoCondition), Transition(1, 0, 1, Name("flag")),
          Transition(2, 1, 2, Lit(PyBool(TRUE))),
          Transition(3, 1, 2, NoCondition)>>)

\* Start(0) -> Split(1) whose transitions are all unfulfilled
SeqSplitNoTransition ==
    Sequence("split_no_transition", [x \in {"flag"} |-> PyBool(FALSE)],
        (0 :> Node("start")) @@ (1 :> Node("parallel_split")) @@
        (2 :> Hello) @@ (3 :> Node("stop")),
        <<Transition(0, 0, 1, NoCondition), Transition(1, 1, 2, Name("flag")),
          Transition(2, 1, 3, Lit(PyBool(FALSE))),
          Transition(3, 2, 3, NoCondition)>>)

\* Start(0) -> Func(1, raises) -> Stop(2) only if Func(1) did not fail
SeqFunctionNoTransition ==
    Sequence("function_no_transition", EmptyDict,
        (0 :> Node("start")) @@
        (1 :> FunctionNode("raise_runtime_error", NoArgs, <<>>)) @@
        (2 :> Node("stop")),
        <<Transition(0, 0, 1, NoCondition), Transition(1, 1, 2, NotRaised(1))>>)

\* Start(0) -> Split(1) -> {Func(2), Func(3) if flag} -> Sync(4) -> Stop(5);
\* Func(3) -> Sync(4).  flag is false: Func(3) never arrives.
SeqSyncPartial ==
    Sequence("sync_partial", [x \in {"flag"} |-> PyBool(FALSE)],
        (0 :> Node("start")) @@ (1 :> Node("parallel_split")) @@
        (2 :> Hello) @@ (3 :> Hello) @@ (4 :> Node("parallel_sync")) @@
        (5 :> Node("stop")),
        <<Transition(0, 0, 1, NoCondition), Transition(1, 1, 2, NoCondition),
          Transition(2, 1, 3, Name("flag")), Transition(3, 2, 4, NoCondition),
          Transition(4, 3, 4, NoCondition), Transition(5, 4, 5, NoCondition)>>)

\* Start(0) -> Split(1) -> {Func(2), Func(3)}; Func(2) -> Stop(4) if flag,
\* Func(3) -> Stop(4).  flag is false: Func(2) has no way on while Func(3)
\* may still be running.
SeqBranchNoTransition ==
    Sequence("branch_no_transition", [x \in {"flag"} |-> PyBool(FALSE)],
        (0 :> Node("start")) @@ (1 :> Node("parallel_split")) @@
        (2 :> Hello) @@ (3 :> Hello) @@ (4 :> Node("stop")),
        <<Transition(0, 0, 1, NoCondition), Transition(1, 1, 2, NoCondition),
          Transition(2, 1, 3, NoCondition), Transition(3, 2, 4, Name("flag")),
          Transition(4, 3, 4, NoCondition)>>)

\* Start(0) -> Func(1) -> Stop(2) under a condition that is not a boolean
SeqNotBoolean ==
    Sequence("not_boolean", EmptyDict,
        (0 :> Node("start")) @@ (1 :> Hello) @@ (2 :> Node("stop")),
        <<Transition(0, 0, 1, NoCondition), Transition(1, 1, 2, Lit(PyInt(1)))>>)

\* Start(0) -> Stop(9), a node that does not exist
SeqUnknownTarget ==
    Sequence("unknown_target", EmptyDict,
        (0 :> Node("start")) @@ (1 :> Node("stop")),
        <<Transition(0, 0, 9, NoCondition)>>)

\* Start(0) -> Func(1: never returns, no timeout) -> Stop(2)
SeqNeverReturn ==
    Sequence("never_return", EmptyDict,
        (0 :> Node("start")) @@
        (1 :> FunctionNode("never_return", NoArgs, <<>>)) @@
        (2 :> Node("stop")),
        <<Transition(0, 0, 1, NoCondition), Transition(1, 1, 2, NoCondition)>>)

\* Start(0) -> Split(1) -> {Func(2), Func(3)} -> Sync(4) -> Func(5, timeout 1);
\* Func(5) -> Split(1) again unless it failed, Func(5) -> Stop(6) if it failed
SeqParallelLoop ==
    Sequence("parallel_loop", EmptyDict,
        (0 :> Node("start")) @@ (1 :> Node("parallel_split")) @@
        (2 :> Hello) @@ (3 :> Hello) @@ (4 :> Node("parallel_sync")) @@
        (5 :> FunctionNode("return_hello_world", NoArgs, <<1>>)) @@
        (6 :> Node("stop")),
        <<Transition(0, 0, 1, NoCondition), Transition(1, 1, 2, NoCondition),
          Transition(2, 1, 3, NoCondition), Transition(3, 2, 4, NoCondition),
          Transition(4, 3, 4, NoCondition), Transition(5, 4, 5, NoCondition),
          Transition(6, 5, 1, NotRaised(5)), Transition(7, 5, 6, IsRaised(5))>>)

\* Start(0) -> Func(1: a test, raises) -> Func(2) -> Stop(3)
SeqTestNodes ==
    Sequence("test_nodes", EmptyDict,
        (0 :> Node("start")) @@
        (1 :> TestNode("raise_runtime_error", NoArgs)) @@
        (2 :> Hello) @@ (3 :> Node("stop")),
        <<Transition(0, 0, 1, NoCondition), Transition(1, 1, 2, NoCondition),
          Transition(2, 2, 3, NoCondition)>>)

\* Start(0) -> Func(1: never returns, timeout 0) -> Stop(2)
SeqZeroTimeout ==
    Sequence("zero_timeout", EmptyDict,
        (0 :> Node("start")) @@
        (1 :> FunctionNode("never_return", NoArgs, <<0>>)) @@
        (2 :> Node("stop")),
        <<Transition(0, 0, 1, NoCondition), Transition(1, 1, 2, NoCondition)>>)

\* Start(0) -> Variable(1: number = 1) -> Variable(2: number = number + 1,
\* statement = (number == 2)) -> Stop(3), run with the constant spam = 'egg'
SeqMultipleVariableNodes ==
    Sequence("multiple_variable_nodes", [x \in {"spam"} |-> PyStr("egg")],
        (0 :> Node("start")) @@
        (1 :> VariableNode("variable", <<<<"none", Lit(PyNone)>>,
                                         <<"number", Lit(PyInt(1))>>>>)) @@
        (2 :> VariableNode("variable",
                           <<<<"number", Plus("number", 1)>>,
                             <<"statement", Equals("number", 2)>>>>)) @@
        (3 :> Node("stop")),
        <<Transition(0, 0, 1, NoCondition), Transition(1, 1, 2, NoCondition),
          Transition(2, 2, 3, NoCondition)>>)

\* Start(0) -> Split(1) -> {Func(2) if True, Func(3) if False, Func(4)},
\* Func(2), Func(3), Func(4) -> Stop(5)
SeqSplitSomeFulfilled ==
    Sequence("split_some_fulfilled", EmptyDict,
        (0 :> Node("start")) @@ (1 :> Node("parallel_split")) @@
        (2 :> Hello) @@ (3 :> Hello) @@ (4 :> Hello) @@ (5 :> Node("stop")),
        <<Transition(0, 0, 1, NoCondition),
          Transition(1, 1, 2, Lit(PyBool(TRUE))),
          Transition(2, 1, 3, Lit(PyBool(FALSE))),
          Transition(3, 1, 4, NoCondition), Transition(4, 2, 5, NoCondition),
          Transition(5, 3, 5, NoCondition), Transition(6, 4, 5, NoCondition)>>)

\* Start(0) -> Variable(1: counter = 0) -> Variable(2: counter = counter + 1)
\* -> Func(3: arg = counter), Func(3) -> Variable(2) unless counter == 10,
\* Func(3) -> Stop(4) then
SeqSimpleLoop ==
    Sequence("simple_loop", EmptyDict,
        (0 :> Node("start")) @@
        (1 :> VariableNode("variable", <<<<"counter", Lit(PyInt(0))>>>>)) @@
        (2 :> VariableNode("variable", <<<<"counter", Plus("counter", 1)>>>>))
        @@ (3 :> FunctionNode("return_arg",
                              <<OneArg("arg", Name("counter"))>>, <<>>)) @@
        (4 :> Node("stop")),
        <<Transition(0, 0, 1, NoCondition), Transition(1, 1, 2, NoCondition),
          Transition(2, 2, 3, NoCondition),
          Transition(3, 3, 2, Lit(PyBool(TRUE))),
          Transition(4, 3, 4, Equals("counter", 10))>>)

\* Start(0) -> Func(1: arg = spam) -> Stop(2), run with the constant
\* spam = 'egg'
SeqArgumentExpression ==
    Sequence("argument_expression", [x \in {"spam"} |-> PyStr("egg")],
        (0 :> Node("start")) @@
        (1 :> FunctionNode("return_arg", <<OneArg("arg", Name("spam"))>>,
                           <<>>)) @@
        (2 :> Node("stop")),
        <<Transition(0, 0, 1, NoCondition), Transition(1, 1, 2, NoCondition)>>)

\* Start(0) -> Func(2) -> Stop(3) and Start(1) -> Stop(3): two start nodes
SeqTwoStarts ==
    Sequence("two_starts", EmptyDict,
        (0 :> Node("start")) @@ (1 :> Node("start")) @@ (2 :> Hello) @@
        (3 :> Node("stop")),
        <<Transition(0, 0, 2, NoCondition), Transition(1, 1, 3, NoCondition),
          Transition(2, 2, 3, NoCondition)>>)

SequenceFiles ==
    {SeqOneFunctionNode, SeqReturnVariable, SeqSimpleParallel, SeqTimeout,
     SeqReadOnlyVariable, SeqReadOnlySeqVar, SeqTwoWays, SeqConditional,
     SeqTwoTargets, SeqStartTwoTargets, SeqSameTarget, SeqSplitNoTransition,
     SeqFunctionNoTransition, SeqSyncPartial, SeqNotBoolean,
     SeqUnknownTarget, SeqNeverReturn, SeqParallelLoop, SeqTestNodes,
     SeqZeroTimeout, SeqMultipleVariableNodes, SeqSplitSomeFulfilled,
     SeqSimpleLoop, SeqArgumentExpression, SeqTwoStarts,
     SeqBranchNoTransition}

-----------------------------------------------------------------------------
(* SequenceAnalyzer *)

\* get_node_type: node['type'], KeyError for an unknown id
get_node_type(node_id) ==
    IF node_id \notin DOMAIN seq.nodes THEN PyError("KeyError")
    ELSE PyStr(seq.nodes[node_id].type)

get_start_node_ids ==
    {n \in DOMAIN seq.nodes : seq.nodes[n].type = "start"}

get_all_prev_node_ids(node_id) ==
    {seq.transitions[i].source : i \in
        {j \in DOMAIN seq.transitions : seq.transitions[j].target = node_id}}

\* get_assignations: only nodes of type 'variable' have assignations
get_assignations(node_id) ==
    IF seq.nodes[node_id].type # "variable"
    THEN [exc |-> "IncompatibleNodeType", ass |-> <<>>]
    ELSE [exc |-> "none", ass |-> seq.nodes[node_id].assignations]

get_function_arguments(node_id) == seq.nodes[node_id].arguments
get_node_timeout(node_id) == seq.nodes[node_id].timeout
get_function_name(node_id) == seq.nodes[node_id].function

\* The transitions leaving src_node_id, in file order
RECURSIVE Candidates(_, _)
Candidates(trans, src_node_id) ==
    IF trans = <<>> THEN <<>>
    ELSE IF Head(trans).source = src_node_id
         THEN <<Head(trans)>> \o Candidates(Tail(trans), src_node_id)
         ELSE Candidates(Tail(trans), src_node_id)

\* Mutant of Winners: the result of a condition is taken for its truth value,
\* whatever its type
Winners_Truthy(cands, vs, winner_ids) ==
    [exc |-> "none",
     winner_ids |-> winner_ids \cup
        {cands[i].id : i \in
            {j \in DOMAIN cands :
                \/ cands[j].condition.k = "none"
                \/ Eval(cands[j].condition, vs) \notin
                        {PyBool(FALSE), PyInt(0), PyNone}}}]

\* The loop over the candidates of get_next_node_id: the ids of the winning
\* transitions, or the exception the first offending condition raises
RECURSIVE Winners(_, _, _)
Winners(cands, vs, winner_ids) ==
    IF cands = <<>> THEN [exc |-> "none", winner_ids |-> winner_ids]
    ELSE IF Head(cands).condition.k = "none"
         THEN Winners(Tail(cands), vs, winner_ids \cup {Head(cands).id})
         ELSE LET cond_res == Eval(Head(cands).condition, vs) IN
              IF cond_res.t = "error"
              THEN [exc |-> cond_res.name, winner_ids |-> {}]
              ELSE IF cond_res.t # "bool"
              THEN [exc |-> "ConditionError", winner_ids |-> {}]
              ELSE IF cond_res.b
              THEN Winners(Tail(cands), vs, winner_ids \cup {Head(cands).id})
              ELSE Winners(Tail(cands), vs, winner_ids)

\* The targets of the winning transitions
\* Mutant of TargetNodes: only the target of the first winner is kept
TargetNodes_OfFirst(winner_ids) ==
    {seq.transitions[i].target : i \in
        {j \in DOMAIN seq.transitions :
            /\ seq.transitions[j].id \in winner_ids
            /\ \A w \in winner_ids : seq.transitions[j].id <= w}}

TargetNodes(winner_ids) ==
    {seq.transitions[i].target : i \in
        {j \in DOMAIN seq.transitions : seq.transitions[j].id \in winner_ids}}

\* Mutant of NoTransition: a parallel split may have no successful transition
NoTransition_ExceptSplit(src_node_id, target_nodes) ==
    /\ Cardinality(target_nodes) = 0
    /\ seq.nodes[src_node_id].type # "parallel_split"

\* No transition of src_node_id is successful
NoTransition(src_node_id, target_nodes) == Cardinality(target_nodes) = 0

\* Mutant of SeveralTargets: any number of targets is accepted
SeveralTargets_Never(target_nodes) == FALSE

\* Too many targets for a node that is not a parallel split
SeveralTargets(target_nodes) == Cardinality(target_nodes) > 1

\* get_next_node_id: kind "int" with the single id in ids, kind "set" for a
\* parallel split, or the exception raised
get_next_node_id(src_node_id, vs) ==
    IF src_node_id \notin DOMAIN seq.nodes
    THEN [exc |-> "KeyError", kind |-> "none", ids |-> {}]
    ELSE LET w == Winners(Candidates(seq.transitions, src_node_id), vs, {})
             target_nodes == TargetNodes(w.winner_ids)
         IN  IF w.exc # "none"
             THEN [exc |-> w.exc, kind |-> "none", ids |-> {}]
             ELSE IF NoTransition(src_node_id, target_nodes)
             THEN [exc |-> "NoTransitionError", kind |-> "none", ids |-> {}]
             ELSE IF seq.nodes[src_node_id].type = "parallel_split"
             THEN [exc |-> "none", kind |-> "set", ids |-> target_nodes]
             ELSE IF SeveralTargets(target_nodes)
             THEN [exc |-> "MultipleTransitionError", kind |-> "none",
                   ids |-> {}]
             ELSE [exc |-> "none", kind |-> "int", ids |-> target_nodes]

-----------------------------------------------------------------------------
(* What a run of the sequence runner leaves aside: this runner builds no
   FunctionNode and does not call SequenceReader *)

NoInvocation ==
    /\ self = [nid |-> 0]
    /\ run_pc = "idle"
    /\ run_variables = EmptyDict
    /\ wrapper_objects = <<>>
    /\ wrappers_pre_success = <<>>
    /\ cursor = <<>>
    /\ pre_exc = PyNone
    /\ func_res = [set |-> FALSE]
    /\ post_exc = PyNone
    /\ sub_process = "none"
    /\ sub_result_queue = <<>>
    /\ node_result_queue = <<>>
    /\ calls = <<>>
    /\ invocation = 0

NoCheck ==
    /\ seq_file = [is_file |-> FALSE, conforms |-> FALSE, nodes |-> <<>>]
    /\ check_pc = "idle"
    /\ to_browse = <<>>
    /\ check_raised = "none"

\* No FunctionGrabber is used
NoGrab ==
    /\ directory = [is_dir |-> FALSE, files |-> <<>>]
    /\ sys_path = <<>>
    /\ sys_modules = <<>>
    /\ imported_functions = <<>>
    /\ imported_wrappers = <<>>
    /\ grab_call = [op |-> "none"]

\* No Node is accessed
NoNode ==
    /\ node_obj = [nid |-> 0, name |-> PyNone, previous_node_id |-> PyNone]
    /\ accesses = <<>>

-----------------------------------------------------------------------------
(* SequenceRunner: construction *)

\* Mutant of add_new_nodes: of several ids only one is added
add_new_nodes_OnlyOne(cur, next, previous_node) ==
    IF next.ids = {} THEN cur
    ELSE cur \cup {NewNode(CHOOSE n \in next.ids : TRUE, previous_node)}

\* _add_new_nodes: one id (an int) or several (a set)
add_new_nodes(cur, next, previous_node) ==
    IF next.kind = "int"
    THEN cur \cup {NewNode(CHOOSE n \in next.ids : TRUE, previous_node)}
    ELSE IF next.kind = "set"
    THEN cur \cup {NewNode(n, previous_node) : n \in next.ids}
    ELSE cur

\* __init__: the variables are the caller's constants plus an empty 'results'
InitialVariables(constants) == DictSet(constants, "results", EmptyDict)
InitialReadOnly(constants) == {"results"} \cup DOMAIN constants

Init ==
    /\ seq \in SequenceFiles
    /\ variables = InitialVariables(seq.constants)
    /\ read_only_var = InitialReadOnly(seq.constants)
    /\ result_queue = <<>>
    /\ new_nodes = add_new_nodes({}, [kind |-> "set", ids |-> get_start_node_ids],
                                 PyNone)
    /\ running_nodes = EmptyDict
    /\ parallel_sync_history = EmptyDict
    /\ status = "INITIALIZED"
    /\ pc = "init"
    /\ new_nodes_iter = {}
    /\ nodes_to_start = <<>>
    /\ procs = <<>>
    /\ clock = 0
    /\ raised = "none"
    /\ handled = <<>>
    /\ NoInvocation
    /\ NoCheck
    /\ NoGrab
    /\ NoNode

-----------------------------------------------------------------------------
(* SequenceRunner.run: the scheduler *)

\* An exception leaves run(): nothing after the raising statement is executed
Raise(exc) == pc' = "raised" /\ raised' = exc

\* status = RUNNING on entry
RunBegin ==
    /\ pc = "init"
    /\ status' = "RUNNING"
    /\ pc' = "loop"
    /\ UNCHANGED <<node_vars, reader_vars, lib_vars>>
    /\ UNCHANGED <<seq, variables, read_only_var, new_nodes, running_nodes,
                   parallel_sync_history, result_queue, new_nodes_iter,
                   nodes_to_start, procs, clock, raised, handled>>

\* while self._running_nodes or self._new_nodes: copy new_nodes for iteration
LoopIterate ==
    /\ pc = "loop"
    /\ running_nodes # EmptyDict \/ new_nodes # {}
    /\ nodes_to_start' = <<>>
    /\ new_nodes_iter' = new_nodes
    /\ pc' = "drain"
    /\ UNCHANGED <<node_vars, reader_vars, lib_vars>>
    /\ UNCHANGED <<seq, status, variables, read_only_var, new_nodes,
                   running_nodes, parallel_sync_history, result_queue, procs,
                   clock, raised, handled>>

\* Mutant of RunReturn: status = STOPPED is also set when run() is left by
\* an exception, as a finally clause would do
RunReturn_Finally ==
    /\ \/ pc = "loop" /\ ~(running_nodes # EmptyDict \/ new_nodes # {})
       \/ pc = "raised" /\ status = "RUNNING"
    /\ status' = "STOPPED"
    /\ pc' = "done"
    /\ UNCHANGED <<node_vars, reader_vars, lib_vars>>
    /\ UNCHANGED <<seq, variables, read_only_var, new_nodes, running_nodes,
                   parallel_sync_history, result_queue, new_nodes_iter,
                   nodes_to_start, procs, clock, raised, handled>>

\* the loop exits: status = STOPPED
RunReturn ==
    /\ pc = "loop"
    /\ ~(running_nodes # EmptyDict \/ new_nodes # {})
    /\ status' = "STOPPED"
    /\ pc' = "done"
    /\ UNCHANGED <<node_vars, reader_vars, lib_vars>>
    /\ UNCHANGED <<seq, variables, read_only_var, new_nodes, running_nodes,
                   parallel_sync_history, result_queue, new_nodes_iter,
                   nodes_to_start, procs, clock, raised, handled>>

\* What every step of the for loop over new_nodes_iter does first
Take(new_node) ==
    /\ pc = "drain"
    /\ new_node \in new_nodes_iter
    /\ new_nodes_iter' = new_nodes_iter \ {new_node}

\* get_node_type raises KeyError: the node does not exist
DrainUnknownId(new_node) ==
    /\ Take(new_node)
    /\ get_node_type(new_node.node_id).t = "error"
    /\ new_nodes' = new_nodes \ {new_node}
    /\ Raise(get_node_type(new_node.node_id).name)
    /\ UNCHANGED <<node_vars, reader_vars, lib_vars>>
    /\ UNCHANGED <<seq, status, variables, read_only_var, running_nodes,
                   parallel_sync_history, result_queue, nodes_to_start, procs,
                   clock, handled>>

\* a function node is added to the list of nodes to start
DrainFunctionNode(new_node) ==
    /\ Take(new_node)
    /\ get_node_type(new_node.node_id) = PyStr("function")
    /\ new_nodes' = new_nodes \ {new_node}
    /\ nodes_to_start' = Append(nodes_to_start, new_node.node_id)
    /\ UNCHANGED <<node_vars, reader_vars, lib_vars>>
    /\ UNCHANGED <<seq, status, variables, read_only_var, running_nodes,
                   parallel_sync_history, result_queue, pc, procs, clock,
                   raised, handled>>

\* The end of a _manage_special_node branch that resolves the next node(s)
\* from the new nodes left after the removal of new_node
Advance(left, next, previous_node) ==
    IF next.exc # "none"
    THEN /\ new_nodes' = left
         /\ Raise(next.exc)
    ELSE /\ new_nodes' = add_new_nodes(left, next, previous_node)
         /\ UNCHANGED <<pc, raised>>

\* Mutant of ManageStart: the next node is added without a previous node
ManageStart_NoPrevious(new_node) ==
    /\ Take(new_node)
    /\ get_node_type(new_node.node_id) = PyStr("start")
    /\ Advance(new_nodes \ {new_node},
               get_next_node_id(new_node.node_id, variables),
               PyNone)
    /\ UNCHANGED <<node_vars, reader_vars, lib_vars>>
    /\ UNCHANGED <<seq, status, variables, read_only_var, running_nodes,
                   parallel_sync_history, result_queue, nodes_to_start, procs,
                   clock, handled>>

\* _manage_special_node, node of type start
ManageStart(new_node) ==
    /\ Take(new_node)
    /\ get_node_type(new_node.node_id) = PyStr("start")
    /\ Advance(new_nodes \ {new_node},
               get_next_node_id(new_node.node_id, variables),
               PyInt(new_node.node_id))
    /\ UNCHANGED <<node_vars, reader_vars, lib_vars>>
    /\ UNCHANGED <<seq, status, variables, read_only_var, running_nodes,
                   parallel_sync_history, result_queue, nodes_to_start, procs,
                   clock, handled>>

\* _manage_special_node, node of type stop
ManageStop(new_node) ==
    /\ Take(new_node)
    /\ get_node_type(new_node.node_id) = PyStr("stop")
    /\ new_nodes' = new_nodes \ {new_node}
    /\ UNCHANGED <<node_vars, reader_vars, lib_vars>>
    /\ UNCHANGED <<seq, status, variables, read_only_var, running_nodes,
                   parallel_sync_history, result_queue, pc, nodes_to_start,
                   procs, clock, raised, handled>>

\* _manage_special_node, node of type parallel_split
ManageParallelSplit(new_node) ==
    /\ Take(new_node)
    /\ get_node_type(new_node.node_id) = PyStr("parallel_split")
    /\ Advance(new_nodes \ {new_node},
               get_next_node_id(new_node.node_id, variables),
               PyInt(new_node.node_id))
    /\ UNCHANGED <<node_vars, reader_vars, lib_vars>>
    /\ UNCHANGED <<seq, status, variables, read_only_var, running_nodes,
                   parallel_sync_history, result_queue, nodes_to_start, procs,
                   clock, handled>>

\* Mutant of HistoryAfterArrival: every inbound node is recorded at once
HistoryAfterArrival_Everyone(history, new_node) ==
    {PyInt(n) : n \in get_all_prev_node_ids(new_node.node_id)}

\* The history of a parallel_sync once the previous node of new_node is added
HistoryAfterArrival(history, new_node) ==
    (IF new_node.node_id \in DOMAIN history
     THEN history[new_node.node_id] ELSE {})
    \cup {new_node.previous_node_id}

\* Mutant of SyncComplete: the first arrival completes the barrier
SyncComplete_AnyArrival(prev, history) == history # {}

\* prev == self._parallel_sync_history[nnid]
SyncComplete(prev, history) == {PyInt(n) : n \in prev} = history

\* Mutant of ClearedHistory: the history of a completed barrier is kept
ClearedHistory_Kept(history) == history

\* self._parallel_sync_history[nnid].clear()
ClearedHistory(history) == {}

\* _manage_special_node, node of type parallel_sync
ManageParallelSync(new_node) ==
    LET nnid == new_node.node_id
        arrived == HistoryAfterArrival(parallel_sync_history, new_node)
    IN  /\ Take(new_node)
        /\ get_node_type(nnid) = PyStr("parallel_sync")
        /\ IF SyncComplete(get_all_prev_node_ids(nnid), arrived)
           THEN /\ parallel_sync_history' =
                        DictSet(parallel_sync_history, nnid,
                                ClearedHistory(arrived))
                /\ Advance(new_nodes \ {new_node},
                           get_next_node_id(nnid, variables), PyInt(nnid))
           ELSE /\ parallel_sync_history' =
                        DictSet(parallel_sync_history, nnid, arrived)
                /\ new_nodes' = new_nodes \ {new_node}
                /\ UNCHANGED <<pc, raised>>
        /\ UNCHANGED <<node_vars, reader_vars, lib_vars>>
        /\ UNCHANGED <<seq, status, variables, read_only_var, running_nodes,
                       result_queue, nodes_to_start, procs, clock, handled>>

\* The assignations of a seq_var node, one after the other: eval(expr) is
\* given no variables
RECURSIVE Assign(_, _)
Assign(vs, ass) ==
    IF ass = <<>> THEN [exc |-> "none", vs |-> vs]
    ELSE LET value == Eval(Head(ass)[2], EmptyDict) IN
         IF value.t = "error" THEN [exc |-> value.name, vs |-> vs]
         ELSE Assign(DictSet(vs, Head(ass)[1], value), Tail(ass))

\* The names a seq_var node assigns
AssignedNames(ass) == {ass[i][1] : i \in DOMAIN ass}

\* _manage_special_node, node of type seq_var
ManageSeqVar(new_node) ==
    LET got == get_assignations(new_node.node_id)
        inter == read_only_var \cap AssignedNames(got.ass)
        done == Assign(variables, got.ass)
    IN  /\ Take(new_node)
        /\ get_node_type(new_node.node_id) = PyStr("seq_var")
        /\ new_nodes' = new_nodes \ {new_node}
        /\ IF got.exc # "none"
           THEN Raise(got.exc) /\ UNCHANGED variables
           ELSE IF inter # {}
           THEN Raise("ReadOnlyError") /\ UNCHANGED variables
           ELSE /\ variables' = done.vs
                /\ IF done.exc # "none" THEN Raise(done.exc)
                   ELSE UNCHANGED <<pc, raised>>
        /\ UNCHANGED <<node_vars, reader_vars, lib_vars>>
        /\ UNCHANGED <<seq, status, read_only_var, running_nodes,
                       parallel_sync_history, result_queue, nodes_to_start,
                       procs, clock, handled>>

\* The node types _manage_special_node has a branch for
KnownTypes == {"function", "start", "stop", "parallel_split", "parallel_sync",
               "seq_var"}

\* _manage_special_node, any other type
ManageUnknownType(new_node) ==
    /\ Take(new_node)
    /\ get_node_type(new_node.node_id).t = "str"
    /\ get_node_type(new_node.node_id).s \notin KnownTypes
    /\ new_nodes' = new_nodes \ {new_node}
    /\ Raise("UnknownNodeTypeError")
    /\ UNCHANGED <<node_vars, reader_vars, lib_vars>>
    /\ UNCHANGED <<seq, status, variables, read_only_var, running_nodes,
                   parallel_sync_history, result_queue, nodes_to_start, procs,
                   clock, handled>>

\* the for loop over new_nodes_iter is over
DrainDone ==
    /\ pc = "drain"
    /\ new_nodes_iter = {}
    /\ pc' = "start"
    /\ UNCHANGED <<node_vars, reader_vars, lib_vars>>
    /\ UNCHANGED <<seq, status, variables, read_only_var, new_nodes,
                   running_nodes, parallel_sync_history, result_queue,
                   new_nodes_iter, nodes_to_start, procs, clock, raised,
                   handled>>

-----------------------------------------------------------------------------
(* SequenceRunner.run: starting the function nodes, receiving their results *)

\* Mutant of HasTimeout: "if timeout is not None", 0 is a timeout
HasTimeout_ZeroCounts(timeout) == timeout # <<>>

\* "if not timeout": None and 0 both mean no timeout
HasTimeout(timeout) == timeout # <<>> /\ timeout[1] # 0

\* The process created for a function node.  With a timeout the process
\* starts a sub-process for the function and waits on a queue of its own.
Process(node_id) ==
    [node_id |-> node_id,
     func |-> get_function_name(node_id),
     kwargs |-> get_function_arguments(node_id),
     timeout |-> get_node_timeout(node_id),
     state |-> "running",
     sub |-> IF HasTimeout(get_node_timeout(node_id)) THEN "running"
             ELSE "none",
     sub_result_queue |-> <<>>]

\* A process is started for the first node of nodes_to_start
StartProcess ==
    /\ pc = "start"
    /\ nodes_to_start # <<>>
    /\ Len(procs) < MaxProcs
    /\ procs' = Append(procs, Process(Head(nodes_to_start)))
    /\ running_nodes' =
            DictSet(running_nodes, Head(nodes_to_start), Len(procs) + 1)
    /\ nodes_to_start' = Tail(nodes_to_start)
    /\ UNCHANGED <<node_vars, reader_vars, lib_vars>>
    /\ UNCHANGED <<seq, status, variables, read_only_var, new_nodes,
                   parallel_sync_history, result_queue, pc, new_nodes_iter,
                   clock, raised, handled>>

\* Mutant of MustWait: waits as long as anything is left to do
MustWait_WhileAnythingLeft == new_nodes # {} \/ running_nodes # EmptyDict

\* Mutant of MustWait: waits whenever no new node is left, running or not
MustWait_NothingNew == new_nodes = {}

\* The condition under which run() waits for a result
MustWait == new_nodes = {} /\ running_nodes # EmptyDict

\* every node of nodes_to_start is started and there is nothing to wait for
NoWait ==
    /\ pc = "start"
    /\ nodes_to_start = <<>>
    /\ ~MustWait
    /\ pc' = "loop"
    /\ UNCHANGED <<node_vars, reader_vars, lib_vars>>
    /\ UNCHANGED <<seq, status, variables, read_only_var, new_nodes,
                   running_nodes, parallel_sync_history, result_queue,
                   new_nodes_iter, nodes_to_start, procs, clock, raised,
                   handled>>

\* Mutant of SaveResult: the result is not stored
SaveResult_Dropped(vs, new_result) == vs

\* Mutant of SaveResult: the results kept so far are forgotten
SaveResult_Alone(vs, new_result) ==
    [vs EXCEPT !["results"] = DictSet(EmptyDict, new_result.node_id, new_result)]

\* Mutant of SaveResult: a record already filed is not overwritten
SaveResult_FirstKept(vs, new_result) ==
    IF new_result.node_id \in DOMAIN vs["results"] THEN vs
    ELSE [vs EXCEPT !["results"] = DictSet(@, new_result.node_id, new_result)]

\* self._variables['results'][new_result.node_id] = new_result
SaveResult(vs, new_result) ==
    [vs EXCEPT !["results"] = DictSet(@, new_result.node_id, new_result)]

\* The new node that follows a function node
FollowingNode(next_id, new_result) ==
    NewNode(next_id, PyInt(new_result.node_id))

\* new_result = self._result_queue.get() and what run() does with it
HandleResult ==
    LET new_result == Head(result_queue)
        next == get_next_node_id(new_result.node_id, variables')
    IN  /\ pc = "start"
        /\ nodes_to_start = <<>>
        /\ MustWait
        /\ result_queue # <<>>
        /\ result_queue' = Tail(result_queue)
        /\ handled' = Append(handled, new_result)
        /\ variables' = SaveResult(variables, new_result)
        /\ IF new_result.node_id \notin DOMAIN running_nodes
           THEN /\ Raise("KeyError")
                /\ UNCHANGED <<running_nodes, new_nodes>>
           ELSE /\ running_nodes' = DictPop(running_nodes, new_result.node_id)
                /\ IF next.exc # "none"
                   THEN Raise(next.exc) /\ UNCHANGED new_nodes
                   ELSE /\ new_nodes' = new_nodes \cup
                            {FollowingNode(CHOOSE n \in next.ids : TRUE,
                                           new_result)}
                        /\ pc' = "loop"
                        /\ UNCHANGED raised
        /\ UNCHANGED <<node_vars, reader_vars, lib_vars>>
        /\ UNCHANGED <<seq, status, read_only_var, parallel_sync_history,
                       new_nodes_iter, nodes_to_start, procs, clock>>

-----------------------------------------------------------------------------
(* The processes of the function nodes *)

\* func(**kwargs)
Call(func, kwargs) ==
    IF kwargs = <<>> THEN [kind |-> "raise", exc |-> "TypeError"]
    ELSE IF DOMAIN kwargs[1] # FunctionDir[func].params
    THEN [kind |-> "raise", exc |-> "TypeError"]
    ELSE CASE FunctionDir[func].body = "return_str" ->
                [kind |-> "return", value |-> PyStr("Hello world!")]
           [] FunctionDir[func].body = "return_time" ->
                [kind |-> "return", value |-> PyFloat(clock)]
           [] FunctionDir[func].body = "return_arg" ->
                [kind |-> "return", value |-> kwargs[1]["arg"]]
           [] FunctionDir[func].body = "raise" ->
                [kind |-> "raise", exc |-> "RuntimeError"]
           [] FunctionDir[func].body = "hang" -> [kind |-> "hang"]

\* Mutant of create_node_result: the exception is not recorded
create_node_result_NeverRaised(node_id, exception, returned_obj) ==
    NodeResult(node_id, ExceptInfo(FALSE, PyNone), returned_obj)

\* _create_node_result
create_node_result(node_id, exception, returned_obj) ==
    IF exception # PyNone
    THEN NodeResult(node_id, ExceptInfo(TRUE, exception), returned_obj)
    ELSE NodeResult(node_id, ExceptInfo(FALSE, PyNone), returned_obj)

\* The result _run_node_function_no_timeout builds from the call
CallResult(node_id, out) ==
    IF out.kind = "raise"
    THEN create_node_result(node_id, PyStr(out.exc), PyNone)
    ELSE create_node_result(node_id, PyNone, out.value)

\* Mutant of TimeoutResult: the expiry is reported as a return of None
TimeoutResult_Success(node_id) == create_node_result(node_id, PyNone, PyNone)

\* The result built when the timeout expires
TimeoutResult(node_id) ==
    create_node_result(node_id, PyStr("NodeFunctionTimeout"), PyNone)

\* _run_node_function_no_timeout in the process of the node: the function
\* returns or raises and the result is put in the result queue
RunNoTimeout(p) ==
    LET out == Call(procs[p].func, procs[p].kwargs) IN
    /\ p \in DOMAIN procs
    /\ procs[p].state = "running"
    /\ ~HasTimeout(procs[p].timeout)
    /\ out.kind # "hang"
    /\ result_queue' = Append(result_queue, CallResult(procs[p].node_id, out))
    /\ procs' = [procs EXCEPT ![p].state = "done"]
    /\ clock' = clock + 1
    /\ UNCHANGED <<node_vars, reader_vars, lib_vars>>
    /\ UNCHANGED <<seq, status, variables, read_only_var, new_nodes,
                   running_nodes, parallel_sync_history, pc, new_nodes_iter,
                   nodes_to_start, raised, handled>>

\* _run_node_function_no_timeout in the sub-process: the result is put in
\* the sub-result queue
SubProcessRun(p) ==
    LET out == Call(procs[p].func, procs[p].kwargs) IN
    /\ p \in DOMAIN procs
    /\ procs[p].sub = "running"
    /\ out.kind # "hang"
    /\ procs' = [procs EXCEPT
            ![p].sub = "done",
            ![p].sub_result_queue = Append(@, CallResult(procs[p].node_id, out))]
    /\ clock' = clock + 1
    /\ UNCHANGED <<node_vars, reader_vars, lib_vars>>
    /\ UNCHANGED <<seq, status, variables, read_only_var, new_nodes,
                   running_nodes, parallel_sync_history, result_queue, pc,
                   new_nodes_iter, nodes_to_start, raised, handled>>

\* sub_result_queue.get returned in time: the result is passed on
PassResult(p) ==
    /\ p \in DOMAIN procs
    /\ procs[p].state = "running"
    /\ HasTimeout(procs[p].timeout)
    /\ procs[p].sub_result_queue # <<>>
    /\ result_queue' = Append(result_queue, Head(procs[p].sub_result_queue))
    /\ procs' = [procs EXCEPT ![p].state = "done",
                              ![p].sub_result_queue = Tail(@)]
    /\ UNCHANGED <<node_vars, reader_vars, lib_vars>>
    /\ UNCHANGED <<seq, status, variables, read_only_var, new_nodes,
                   running_nodes, parallel_sync_history, pc, new_nodes_iter,
                   nodes_to_start, clock, raised, handled>>

\* sub_result_queue.get timed out: a NodeFunctionTimeout result is put
TimeoutExpires(p) ==
    /\ p \in DOMAIN procs
    /\ procs[p].state = "running"
    /\ HasTimeout(procs[p].timeout)
    /\ procs[p].sub_result_queue = <<>>
    /\ result_queue' = Append(result_queue, TimeoutResult(procs[p].node_id))
    /\ procs' = [procs EXCEPT ![p].state = "done"]
    /\ UNCHANGED <<node_vars, reader_vars, lib_vars>>
    /\ UNCHANGED <<seq, status, variables, read_only_var, new_nodes,
                   running_nodes, parallel_sync_history, pc, new_nodes_iter,
                   nodes_to_start, clock, raised, handled>>

-----------------------------------------------------------------------------
(* The specification *)

Scheduler ==
    \/ RunBegin
    \/ LoopIterate
    \/ RunReturn
    \/ \E new_node \in new_nodes_iter : DrainUnknownId(new_node)
    \/ \E new_node \in new_nodes_iter : DrainFunctionNode(new_node)
    \/ \E new_node \in new_nodes_iter : ManageStart(new_node)
    \/ \E new_node \in new_nodes_iter : ManageStop(new_node)
    \/ \E new_node \in new_nodes_iter : ManageParallelSplit(new_node)
    \/ \E new_node \in new_nodes_iter : ManageParallelSync(new_node)
    \/ \E new_node \in new_nodes_iter : ManageSeqVar(new_node)
    \/ \E new_node \in new_nodes_iter : ManageUnknownType(new_node)
    \/ DrainDone
    \/ StartProcess
    \/ NoWait
    \/ HandleResult

Workers ==
    \/ \E p \in DOMAIN procs : RunNoTimeout(p)
    \/ \E p \in DOMAIN procs : SubProcessRun(p)
    \/ \E p \in DOMAIN procs : PassResult(p)
    \/ \E p \in DOMAIN procs : TimeoutExpires(p)

Next == Scheduler \/ Workers

Spec == Init /\ [][Next]_vars

\* The scheduler thread runs whenever it can; a process whose function
\* returns or raises, or whose timeout runs, gets to put its result.
FairSpec == Spec /\ WF_vars(Scheduler) /\ WF_vars(Workers)

-----------------------------------------------------------------------------
(* nodes.py: a FunctionNode and its wrappers *)

\* The wrapper directory: the constructor parameters of each class, and what
\* its constructor, pre() and post() do
WrapperDir ==
    [WrapperSetFoo |-> [params |-> {}, init |-> "ok", pre |-> "foo",
                        post |-> "pass"],
     WrapperToCaps |-> [params |-> {"text"}, init |-> "ok", pre |-> "upper",
                        post |-> "pass"],
     WrapperWriteInFile |-> [params |-> {"filepath"}, init |-> "ok",
                             pre |-> "pass", post |-> "write"],
     WrapperExcInit |-> [params |-> {}, init |-> "raise", pre |-> "pass",
                         post |-> "pass"],
     WrapperExcPre |-> [params |-> {}, init |-> "ok", pre |-> "raise",
                        post |-> "pass"],
     WrapperExcPost |-> [params |-> {}, init |-> "ok", pre |-> "pass",
                         post |-> "raise"]]

\* str.upper() on the strings the wrappers meet
Upper(s) == CASE s = "foo" -> "FOO" [] s = "egg" -> "EGG" [] OTHER -> s

\* The exceptions of nodes.py that carry a wrapper name and a cause
NodeWrapperInitError(nid, wrapper_name, cause) ==
    [name |-> "NodeWrapperInitError", nid |-> nid,
     wrapper_name |-> wrapper_name, cause |-> cause]
NodeWrapperPreError(nid, wrapper_name, cause) ==
    [name |-> "NodeWrapperPreError", nid |-> nid,
     wrapper_name |-> wrapper_name, cause |-> cause]
NodeWrapperPostError(nid, wrapper_name, cause) ==
    [name |-> "NodeWrapperPostError", nid |-> nid,
     wrapper_name |-> wrapper_name, cause |-> cause]
FunctionException(name) == [name |-> name]

\* The named tuple FunctionNodeResult of nodes.py and its ExceptInfo
FunctionExceptInfo(function, wrappers) ==
    [function |-> function, wrappers |-> wrappers]
FunctionNodeResult(nid, exception, returned) ==
    [nid |-> nid, exception |-> exception, returned |-> returned]

\* common.evaluate_expr: a string is evaluated, any other object is the value
evaluate_expr(expr, vs) ==
    IF "k" \in DOMAIN expr THEN Eval(expr, vs) ELSE expr

\* common.evaluate_kwargs: the evaluated dictionary, or the exception of the
\* evaluation that fails
evaluate_kwargs(kwargs_dict, vs) ==
    LET failed == {a \in DOMAIN kwargs_dict :
                        evaluate_expr(kwargs_dict[a], vs).t = "error"}
    IN  IF failed # {}
        THEN [exc |-> evaluate_expr(kwargs_dict[CHOOSE a \in failed : TRUE],
                                    vs).name,
              kwargs |-> EmptyDict]
        ELSE [exc |-> "none",
              kwargs |-> [a \in DOMAIN kwargs_dict |->
                            evaluate_expr(kwargs_dict[a], vs)]]

\* self._wrapper_classes[wrapper_name](**evaluated_kwargs)
Construct(wrapper_name, evaluated_kwargs) ==
    IF DOMAIN evaluated_kwargs # WrapperDir[wrapper_name].params
    THEN [exc |-> "TypeError"]
    ELSE IF WrapperDir[wrapper_name].init = "raise"
    THEN [exc |-> "RuntimeError"]
    ELSE [exc |-> "none",
          obj |-> [wrapper_name |-> wrapper_name, attrs |-> evaluated_kwargs]]

\* wrapper_obj.pre()
Pre(wrapper_obj) ==
    LET what == WrapperDir[wrapper_obj.wrapper_name].pre IN
    CASE what = "pass" -> [exc |-> "none", value |-> PyNone]
      [] what = "foo" -> [exc |-> "none", value |-> PyStr("foo")]
      [] what = "upper" ->
            IF wrapper_obj.attrs["text"].t = "str"
            THEN [exc |-> "none",
                  value |-> PyStr(Upper(wrapper_obj.attrs["text"].s))]
            ELSE [exc |-> "AttributeError", value |-> PyNone]
      [] what = "raise" -> [exc |-> "RuntimeError", value |-> PyNone]

\* wrapper_obj.post()
Post(wrapper_obj) ==
    IF WrapperDir[wrapper_obj.wrapper_name].post = "raise"
    THEN [exc |-> "RuntimeError"] ELSE [exc |-> "none"]

\* A call of user code, as the history records it
UserCall(op, who, args) == [op |-> op, who |-> who, args |-> args]

\* A wrapper of a node: the class name and the arguments of its constructor
Wrapper(wrapper_name, wrapper_kwargs) ==
    [wrapper_name |-> wrapper_name, wrapper_kwargs |-> wrapper_kwargs]

\* FunctionNode.__init__
NewFunctionNode(nid, function_name, function_kwargs, timeout, wrappers) ==
    [nid |-> nid, function_name |-> function_name,
     function_kwargs |-> function_kwargs, timeout |-> timeout,
     wrappers_desc |-> wrappers]


\* The wrappers a node of the model may declare
WrapperChoices ==
    {Wrapper("WrapperSetFoo", EmptyDict),
     Wrapper("WrapperToCaps", OneArg("text", WrapperResult("WrapperSetFoo"))),
     Wrapper("WrapperToCaps", OneArg("text", Lit(PyStr("egg")))),
     Wrapper("WrapperToCaps", OneArg("text", PyInt(1))),
     Wrapper("WrapperToCaps", OneArg("text", Name("undefined"))),
     Wrapper("WrapperToCaps", EmptyDict),
     Wrapper("WrapperWriteInFile", OneArg("filepath", Lit(PyStr("wrap.txt")))),
     Wrapper("WrapperExcInit", EmptyDict),
     Wrapper("WrapperExcPre", EmptyDict),
     Wrapper("WrapperExcPost", EmptyDict)}

\* The keys of an OrderedDict are distinct
DistinctNames(l) ==
    \A i, j \in DOMAIN l : i # j => l[i].wrapper_name # l[j].wrapper_name

RECURSIVE WrapperListsUpTo(_)
WrapperListsUpTo(n) ==
    IF n = 0 THEN {<<>>}
    ELSE LET shorter == WrapperListsUpTo(n - 1) IN
         shorter \cup {l \in {Append(k, w) : k \in shorter,
                                              w \in WrapperChoices} :
                            DistinctNames(l)}

\* The function, its arguments and its timeout
FunctionChoices ==
    {<<"return_arg", OneArg("arg", WrapperResult("WrapperToCaps"))>>,
     <<"return_arg", OneArg("arg", WrapperResult("WrapperSetFoo"))>>,
     <<"return_arg", OneArg("arg", PyInt(1))>>,
     <<"return_arg", OneArg("arg", Name("undefined"))>>,
     <<"return_arg", EmptyDict>>,
     <<"raise_runtime_error", EmptyDict>>,
     <<"never_return", EmptyDict>>}

\* The nodes run() is called on: a function, no timeout, a timeout of 0 or
\* of 1 second, and an OrderedDict of up to MaxWrappers wrappers
FunctionNodeObjects ==
    {NewFunctionNode(1, f[1], f[2], t, w) :
        f \in FunctionChoices, t \in {<<>>, <<0>>, <<1>>},
        w \in WrapperListsUpTo(MaxWrappers)}

-----------------------------------------------------------------------------
(* nodes.py: FunctionNode.run, called once on a node as constructed, in the
   process started for it *)

\* No sequence is run
NoRun ==
    /\ seq = Sequence("", EmptyDict, <<>>, <<>>)
    /\ status = "INITIALIZED"
    /\ variables = EmptyDict
    /\ read_only_var = {}
    /\ new_nodes = {}
    /\ running_nodes = EmptyDict
    /\ parallel_sync_history = EmptyDict
    /\ result_queue = <<>>
    /\ pc = "idle"
    /\ new_nodes_iter = {}
    /\ nodes_to_start = <<>>
    /\ procs = <<>>
    /\ clock = 0
    /\ raised = "none"
    /\ handled = <<>>

runner_vars == <<seq, status, variables, read_only_var, new_nodes,
                 running_nodes, parallel_sync_history, result_queue, pc,
                 new_nodes_iter, nodes_to_start, procs, clock, raised,
                 handled>>

\* The variables given to run(): a copy of the variables of a runner
VariablesCopy ==
    DictSet(OneArg("spam", PyStr("egg")), "results", EmptyDict)

\* WrappedNode.__init__ and FunctionNode.__init__, then the entry of run()
NodeInit ==
    /\ NoRun
    /\ NoCheck
    /\ NoGrab
    /\ NoNode
    /\ self \in FunctionNodeObjects
    /\ run_pc = "run"
    /\ run_variables = VariablesCopy
    /\ wrapper_objects = <<>>
    /\ wrappers_pre_success = <<>>
    /\ cursor = <<>>
    /\ pre_exc = PyNone
    /\ func_res = [set |-> FALSE]
    /\ post_exc = PyNone
    /\ sub_process = "none"
    /\ sub_result_queue = <<>>
    /\ node_result_queue = <<>>
    /\ calls = <<>>
    /\ invocation = 1

\* What no step of FunctionNode.run touches
NodeFrame == UNCHANGED <<runner_vars, reader_vars, lib_vars, self, invocation>>

\* (func_ret, func_exc)
FuncRes(func_ret, func_exc) ==
    [set |-> TRUE, func_ret |-> func_ret, func_exc |-> func_exc]

\* _run_wrappers_pre: the dictionaries are reset before the loop
WrappersPreBegin ==
    /\ run_pc = "run"
    /\ wrapper_objects' = <<>>
    /\ run_variables' = DictSet(run_variables, "wrappers", EmptyDict)
    /\ cursor' = self.wrappers_desc
    /\ run_pc' = "pre_init"
    /\ NodeFrame
    /\ UNCHANGED <<wrappers_pre_success, pre_exc, func_res, post_exc,
                   sub_process, sub_result_queue, node_result_queue, calls>>

\* Mutant of WrappersFailed: the function is run all the same
WrappersFailed_GoesOn(exc) ==
    /\ pre_exc' = exc
    /\ run_pc' = "function"
    /\ UNCHANGED func_res

\* except (NodeWrapperInitError, NodeWrapperPreError): the function is not
\* run and its results are None
WrappersFailed(exc) ==
    /\ pre_exc' = exc
    /\ func_res' = FuncRes(PyNone, PyNone)
    /\ run_pc' = "post_begin"

\* The arguments of the wrapper at the head of the loop are evaluated ...
WrapperKwargsFail ==
    LET w == Head(cursor)
        ev == evaluate_kwargs(w.wrapper_kwargs, run_variables)
    IN  /\ run_pc = "pre_init"
        /\ cursor # <<>>
        /\ ev.exc # "none"
        /\ WrappersFailed(NodeWrapperInitError(self.nid, w.wrapper_name,
                                               ev.exc))
        /\ NodeFrame
        /\ UNCHANGED <<run_variables, wrapper_objects, wrappers_pre_success,
                       cursor, post_exc, sub_process, sub_result_queue,
                       node_result_queue, calls>>

\* ... and its class is instantiated
WrapperInit ==
    LET w == Head(cursor)
        ev == evaluate_kwargs(w.wrapper_kwargs, run_variables)
        made == Construct(w.wrapper_name, ev.kwargs)
    IN  /\ run_pc = "pre_init"
        /\ cursor # <<>>
        /\ ev.exc = "none"
        /\ calls' = Append(calls, UserCall("init", w.wrapper_name, ev.kwargs))
        /\ IF made.exc # "none"
           THEN /\ WrappersFailed(NodeWrapperInitError(self.nid,
                                        w.wrapper_name, made.exc))
                /\ UNCHANGED wrapper_objects
           ELSE /\ wrapper_objects' = Append(wrapper_objects, made.obj)
                /\ run_pc' = "pre_call"
                /\ UNCHANGED <<pre_exc, func_res>>
        /\ NodeFrame
        /\ UNCHANGED <<run_variables, wrappers_pre_success, cursor, post_exc,
                       sub_process, sub_result_queue, node_result_queue>>

\* Mutant of StorePre: the results of the wrappers run before are lost
StorePre_Alone(vs, wrapper_name, value) ==
    [vs EXCEPT !["wrappers"] = DictSet(EmptyDict, wrapper_name, value)]

\* variables['wrappers'][wrapper_name] = wrapper_obj.pre()
StorePre(vs, wrapper_name, value) ==
    [vs EXCEPT !["wrappers"] = DictSet(@, wrapper_name, value)]

\* The pre() of the wrapper just instantiated is run
WrapperPre ==
    LET wrapper_obj == wrapper_objects[Len(wrapper_objects)]
        wrapper_name == wrapper_obj.wrapper_name
        got == Pre(wrapper_obj)
    IN  /\ run_pc = "pre_call"
        /\ calls' = Append(calls, UserCall("pre", wrapper_name, EmptyDict))
        /\ IF got.exc # "none"
           THEN /\ WrappersFailed(NodeWrapperPreError(self.nid, wrapper_name,
                                                      got.exc))
                /\ UNCHANGED <<run_variables, wrappers_pre_success, cursor>>
           ELSE /\ run_variables' =
                        StorePre(run_variables, wrapper_name, got.value)
                /\ wrappers_pre_success' =
                        Append(wrappers_pre_success, wrapper_name)
                /\ cursor' = Tail(cursor)
                /\ run_pc' = "pre_init"
                /\ UNCHANGED <<pre_exc, func_res>>
        /\ NodeFrame
        /\ UNCHANGED <<wrapper_objects, post_exc, sub_process,
                       sub_result_queue, node_result_queue>>

\* The loop of _run_wrappers_pre is over: no wrapper failed
WrappersPreDone ==
    /\ run_pc = "pre_init"
    /\ cursor = <<>>
    /\ run_pc' = "function"
    /\ NodeFrame
    /\ UNCHANGED <<run_variables, wrapper_objects, wrappers_pre_success,
                   cursor, pre_exc, func_res, post_exc, sub_process,
                   sub_result_queue, node_result_queue, calls>>

\* Mutant of FunctionKwargsFail: the failure ends run() without post-phase
FunctionKwargsFail_NoPost ==
    LET ev == evaluate_kwargs(self.function_kwargs, run_variables) IN
    /\ run_pc = "function"
    /\ ev.exc # "none"
    /\ func_res' = FuncRes(PyNone, FunctionException(ev.exc))
    /\ run_pc' = "result"
    /\ NodeFrame
    /\ UNCHANGED <<run_variables, wrapper_objects, wrappers_pre_success,
                   cursor, pre_exc, post_exc, sub_process, sub_result_queue,
                   node_result_queue, calls>>

\* The evaluation of the arguments of the function fails: the exception is
\* kept as the exception of the function, which is not run
FunctionKwargsFail ==
    LET ev == evaluate_kwargs(self.function_kwargs, run_variables) IN
    /\ run_pc = "function"
    /\ ev.exc # "none"
    /\ func_res' = FuncRes(PyNone, FunctionException(ev.exc))
    /\ run_pc' = "post_begin"
    /\ NodeFrame
    /\ UNCHANGED <<run_variables, wrapper_objects, wrappers_pre_success,
                   cursor, pre_exc, post_exc, sub_process, sub_result_queue,
                   node_result_queue, calls>>

\* self._func_callable(**kwargs) and what _run_function_no_timeout makes of it
FunctionOutcome ==
    LET ev == evaluate_kwargs(self.function_kwargs, run_variables)
        out == Call(self.function_name, <<ev.kwargs>>)
    IN  IF out.kind = "hang" THEN [kind |-> "hang"]
        ELSE IF out.kind = "raise"
        THEN [kind |-> "done",
              res |-> FuncRes(PyNone, FunctionException(out.exc))]
        ELSE [kind |-> "done", res |-> FuncRes(out.value, PyNone)]

\* Without timeout the function is called in the process of run()
FunctionEnter ==
    LET ev == evaluate_kwargs(self.function_kwargs, run_variables) IN
    /\ run_pc = "function"
    /\ ev.exc = "none"
    /\ ~HasTimeout(self.timeout)
    /\ calls' = Append(calls, UserCall("call", self.function_name, ev.kwargs))
    /\ run_pc' = "in_function"
    /\ NodeFrame
    /\ UNCHANGED <<run_variables, wrapper_objects, wrappers_pre_success,
                   cursor, pre_exc, func_res, post_exc, sub_process,
                   sub_result_queue, node_result_queue>>

\* The function returns or raises
FunctionLeave ==
    /\ run_pc = "in_function"
    /\ FunctionOutcome.kind = "done"
    /\ calls' = Append(calls, UserCall("end", self.function_name, EmptyDict))
    /\ func_res' = FunctionOutcome.res
    /\ run_pc' = "post_begin"
    /\ NodeFrame
    /\ UNCHANGED <<run_variables, wrapper_objects, wrappers_pre_success,
                   cursor, pre_exc, post_exc, sub_process, sub_result_queue,
                   node_result_queue>>

\* _run_function_with_timeout: the sub-process is started
FunctionSubProcessStart ==
    LET ev == evaluate_kwargs(self.function_kwargs, run_variables) IN
    /\ run_pc = "function"
    /\ ev.exc = "none"
    /\ HasTimeout(self.timeout)
    /\ sub_process' = "running"
    /\ calls' = Append(calls, UserCall("call", self.function_name, ev.kwargs))
    /\ run_pc' = "wait"
    /\ NodeFrame
    /\ UNCHANGED <<run_variables, wrapper_objects, wrappers_pre_success,
                   cursor, pre_exc, func_res, post_exc, sub_result_queue,
                   node_result_queue>>

\* Mutant of FunctionSubProcessEnd: the sub-process puts what the function
\* gave on the queue of the results of the node
FunctionSubProcessEnd_OnResultQueue ==
    /\ sub_process = "running"
    /\ FunctionOutcome.kind = "done"
    /\ sub_process' = "done"
    /\ node_result_queue' = Append(node_result_queue,
            FunctionNodeResult(self.nid, PyNone, FunctionOutcome.res.func_ret))
    /\ calls' = Append(calls, UserCall("end", self.function_name, EmptyDict))
    /\ NodeFrame
    /\ UNCHANGED <<run_pc, run_variables, wrapper_objects,
                   wrappers_pre_success, cursor, pre_exc, func_res, post_exc,
                   sub_result_queue>>

\* In the sub-process the function returns or raises, whenever that is
FunctionSubProcessEnd ==
    /\ sub_process = "running"
    /\ FunctionOutcome.kind = "done"
    /\ sub_process' = "done"
    /\ sub_result_queue' = Append(sub_result_queue, FunctionOutcome.res)
    /\ calls' = Append(calls, UserCall("end", self.function_name, EmptyDict))
    /\ NodeFrame
    /\ UNCHANGED <<run_pc, run_variables, wrapper_objects,
                   wrappers_pre_success, cursor, pre_exc, func_res, post_exc,
                   node_result_queue>>

\* sub_result_queue.get returns before the timeout
FunctionQueueGet ==
    /\ run_pc = "wait"
    /\ sub_result_queue # <<>>
    /\ func_res' = Head(sub_result_queue)
    /\ sub_result_queue' = Tail(sub_result_queue)
    /\ run_pc' = "post_begin"
    /\ NodeFrame
    /\ UNCHANGED <<run_variables, wrapper_objects, wrappers_pre_success,
                   cursor, pre_exc, post_exc, sub_process, node_result_queue,
                   calls>>

\* sub_result_queue.get raises Empty: the timeout occurred
FunctionTimeout ==
    /\ run_pc = "wait"
    /\ sub_result_queue = <<>>
    /\ func_res' = FuncRes(PyNone, FunctionException("NodeFunctionTimeout"))
    /\ run_pc' = "post_begin"
    /\ NodeFrame
    /\ UNCHANGED <<run_variables, wrapper_objects, wrappers_pre_success,
                   cursor, pre_exc, post_exc, sub_process, sub_result_queue,
                   node_result_queue, calls>>

\* _run_wrappers_post iterates over the wrapper objects
WrappersPostBegin ==
    /\ run_pc = "post_begin"
    /\ cursor' = wrapper_objects
    /\ run_pc' = "post"
    /\ NodeFrame
    /\ UNCHANGED <<run_variables, wrapper_objects, wrappers_pre_success,
                   pre_exc, func_res, post_exc, sub_process, sub_result_queue,
                   node_result_queue, calls>>

\* Mutant of PreSucceeded: the post of every wrapper object is run
PreSucceeded_Always(wrapper_name, success) == TRUE

\* wrapper_name in self._wrappers_pre_success
PreSucceeded(wrapper_name, success) ==
    \E i \in DOMAIN success : success[i] = wrapper_name

\* The wrapper did not run its pre correctly: continue
WrapperPostSkip ==
    /\ run_pc = "post"
    /\ cursor # <<>>
    /\ ~PreSucceeded(Head(cursor).wrapper_name, wrappers_pre_success)
    /\ cursor' = Tail(cursor)
    /\ NodeFrame
    /\ UNCHANGED <<run_pc, run_variables, wrapper_objects,
                   wrappers_pre_success, pre_exc, func_res, post_exc,
                   sub_process, sub_result_queue, node_result_queue, calls>>

\* wrapper_obj.post()
WrapperPost ==
    LET wrapper_obj == Head(cursor) IN
    /\ run_pc = "post"
    /\ cursor # <<>>
    /\ PreSucceeded(wrapper_obj.wrapper_name, wrappers_pre_success)
    /\ calls' = Append(calls,
                       UserCall("post", wrapper_obj.wrapper_name, EmptyDict))
    /\ IF Post(wrapper_obj).exc # "none"
       THEN /\ post_exc' = NodeWrapperPostError(self.nid,
                                wrapper_obj.wrapper_name, Post(wrapper_obj).exc)
            /\ run_pc' = "result"
            /\ UNCHANGED cursor
       ELSE /\ cursor' = Tail(cursor)
            /\ UNCHANGED <<post_exc, run_pc>>
    /\ NodeFrame
    /\ UNCHANGED <<run_variables, wrapper_objects, wrappers_pre_success,
                   pre_exc, func_res, sub_process, sub_result_queue,
                   node_result_queue>>

\* The loop of _run_wrappers_post is over
WrappersPostDone ==
    /\ run_pc = "post"
    /\ cursor = <<>>
    /\ run_pc' = "result"
    /\ NodeFrame
    /\ UNCHANGED <<run_variables, wrapper_objects, wrappers_pre_success,
                   cursor, pre_exc, func_res, post_exc, sub_process,
                   sub_result_queue, node_result_queue, calls>>

\* FunctionNode._create_node_result
create_function_node_result(function_exception, wrappers_exception, returned_obj) ==
    IF wrappers_exception # PyNone \/ function_exception # PyNone
    THEN FunctionNodeResult(self.nid,
            FunctionExceptInfo(function_exception, wrappers_exception),
            returned_obj)
    ELSE FunctionNodeResult(self.nid, PyNone, returned_obj)

\* Mutant of WrappersException: the exception of the post-phase comes first
WrappersException_PostFirst(pre, post) == IF post # PyNone THEN post ELSE pre

\* pre_exc if pre_exc else post_exc
WrappersException(pre, post) == IF pre # PyNone THEN pre ELSE post

\* result_queue.put(result)
PutResult ==
    /\ run_pc = "result"
    /\ node_result_queue' = Append(node_result_queue,
            create_function_node_result(func_res.func_exc,
                WrappersException(pre_exc, post_exc),
                func_res.func_ret))
    /\ run_pc' = "done"
    /\ NodeFrame
    /\ UNCHANGED <<run_variables, wrapper_objects, wrappers_pre_success,
                   cursor, pre_exc, func_res, post_exc, sub_process,
                   sub_result_queue, calls>>

NodeNext ==
    \/ WrappersPreBegin
    \/ WrapperKwargsFail
    \/ WrapperInit
    \/ WrapperPre
    \/ WrappersPreDone
    \/ FunctionKwargsFail
    \/ FunctionEnter
    \/ FunctionLeave
    \/ FunctionSubProcessStart
    \/ FunctionSubProcessEnd
    \/ FunctionQueueGet
    \/ FunctionTimeout
    \/ WrappersPostBegin
    \/ WrapperPostSkip
    \/ WrapperPost
    \/ WrappersPostDone
    \/ PutResult

NodeSpec == NodeInit /\ [][NodeNext]_vars

-----------------------------------------------------------------------------
(* nodes.py: FunctionNode.run, called again on the same node object *)

\* How many times run() is called on one node object
MaxRuns == 2

\* The variables a caller gives to run(): the name 'undefined' that some
\* wrappers and functions of the model read is bound to a string or an int
RerunVariables ==
    {DictSet(VariablesCopy, "undefined", PyStr("egg")),
     DictSet(VariablesCopy, "undefined", PyInt(1))}

\* The first call of run() on a node as constructed
RerunInit ==
    /\ NoRun
    /\ NoCheck
    /\ NoGrab
    /\ NoNode
    /\ self \in FunctionNodeObjects
    /\ run_pc = "run"
    /\ run_variables \in RerunVariables
    /\ wrapper_objects = <<>>
    /\ wrappers_pre_success = <<>>
    /\ cursor = <<>>
    /\ pre_exc = PyNone
    /\ func_res = [set |-> FALSE]
    /\ post_exc = PyNone
    /\ sub_process = "none"
    /\ sub_result_queue = <<>>
    /\ node_result_queue = <<>>
    /\ calls = <<>>
    /\ invocation = 1

\* run() has returned and is called again on the same object, with a queue
\* and variables of the caller's choice: the locals of run() are new, the
\* attributes of the object are what the call before left
RunAgain ==
    /\ run_pc = "done"
    /\ invocation < MaxRuns
    /\ invocation' = invocation + 1
    /\ run_pc' = "run"
    /\ run_variables' \in RerunVariables
    /\ node_result_queue' = <<>>
    /\ cursor' = <<>>
    /\ pre_exc' = PyNone
    /\ func_res' = [set |-> FALSE]
    /\ post_exc' = PyNone
    /\ sub_process' = "none"
    /\ sub_result_queue' = <<>>
    /\ calls' = <<>>
    /\ UNCHANGED <<wrapper_objects, wrappers_pre_success>>
    /\ UNCHANGED <<runner_vars, reader_vars, lib_vars, self>>

RerunNext == NodeNext \/ RunAgain

RerunSpec == RerunInit /\ [][RerunNext]_vars

-----------------------------------------------------------------------------
(* sequencereader.py: SequenceReader.check_sequence_file on a sequence file.
   The schema is not part of the sources: whether the file conforms to it is
   an input of the check. *)

FileNode(id, type, transitions) ==
    [id |-> id, type |-> type, transitions |-> transitions]

\* The nodes of the files given to the check.  Their ids are 0 and 1 and the
\* targets of their transitions 0, 1 and 2, the id of no node; the key
\* 'transitions' is absent, or a list of transitions of which the targets
\* are kept
FileNodes ==
    LET FileTargets == {0, 1, 2}
        TransitionsChoices ==
            {<<>>} \cup {<<<<t>>>> : t \in FileTargets}
                   \cup {<<p>> : p \in {q \in FileTargets \X FileTargets :
                                                q[1] # q[2]}}
    IN  {FileNode(id, type, transitions) :
            id \in {0, 1}, type \in {"start", "function"},
            transitions \in TransitionsChoices}

RECURSIVE NodeListsUpTo(_)
NodeListsUpTo(n) ==
    IF n = 0 THEN {<<>>}
    ELSE LET shorter == NodeListsUpTo(n - 1) IN
         shorter \cup {Append(l, node) : l \in shorter, node \in FileNodes}

SequenceFileInputs ==
    {[is_file |-> f, conforms |-> c, nodes |-> l] :
        f \in BOOLEAN, c \in BOOLEAN, l \in NodeListsUpTo(MaxNodes) \ {<<>>}}

\* item_ids = [i['id'] for i in loaded['sequence']['nodes']]
item_ids(loaded) == [i \in DOMAIN loaded.nodes |-> loaded.nodes[i].id]

\* set(l)
SetOf(l) == {l[i] : i \in DOMAIN l}

\* [k for k, v in Counter(item_ids).items() if v > 1]
non_unique_ids(ids) ==
    {k \in SetOf(ids) : Cardinality({i \in DOMAIN ids : ids[i] = k}) > 1}

\* The ids of the start nodes
start_nids(loaded) ==
    {loaded.nodes[i].id : i \in
        {j \in DOMAIN loaded.nodes : loaded.nodes[j].type = "start"}}

\* set([t['target'] for t in transitions]), or set() without transitions
targets_of(node) ==
    IF node.transitions = <<>> THEN {} ELSE SetOf(node.transitions[1])

\* Mutant of nonexistent_targets: the difference is taken the other way
nonexistent_targets_Reversed(targets, loaded) ==
    SetOf(item_ids(loaded)) \ targets

\* targets.difference(set(item_ids))
nonexistent_targets(targets, loaded) == targets \ SetOf(item_ids(loaded))

\* Mutant of start_targets: the targets are compared with the ids of the
\* nodes that are not start nodes
start_targets_OfOthers(targets, loaded) ==
    targets \cap (SetOf(item_ids(loaded)) \ start_nids(loaded))

\* targets.intersection(set(start_nids))
start_targets(targets, loaded) == targets \cap start_nids(loaded)

ReaderInit ==
    /\ NoRun /\ NoInvocation
    /\ NoGrab /\ NoNode
    /\ seq_file \in SequenceFileInputs
    /\ check_pc = "file"
    /\ to_browse = <<>>
    /\ check_raised = "none"

ReaderFrame == UNCHANGED <<runner_vars, node_vars, lib_vars, seq_file>>

CheckRaise(exc) == check_pc' = "raised" /\ check_raised' = exc

\* os.path.isfile(seq_file_path)
FileNotFound ==
    /\ check_pc = "file"
    /\ ~seq_file.is_file
    /\ CheckRaise("FileNotFoundError")
    /\ UNCHANGED to_browse
    /\ ReaderFrame

FileFound ==
    /\ check_pc = "file"
    /\ seq_file.is_file
    /\ check_pc' = "validate"
    /\ UNCHANGED <<to_browse, check_raised>>
    /\ ReaderFrame

\* yamale.validate raises ValueError
ValidateFails ==
    /\ check_pc = "validate"
    /\ ~seq_file.conforms
    /\ CheckRaise("SequenceFileError")
    /\ UNCHANGED to_browse
    /\ ReaderFrame

ValidatePasses ==
    /\ check_pc = "validate"
    /\ seq_file.conforms
    /\ check_pc' = "ids"
    /\ UNCHANGED <<to_browse, check_raised>>
    /\ ReaderFrame

\* Check uniqueness of the IDs
IdsNotUnique ==
    /\ check_pc = "ids"
    /\ non_unique_ids(item_ids(seq_file)) # {}
    /\ CheckRaise("SequenceFileError")
    /\ UNCHANGED to_browse
    /\ ReaderFrame

IdsUnique ==
    /\ check_pc = "ids"
    /\ non_unique_ids(item_ids(seq_file)) = {}
    /\ check_pc' = "browse"
    /\ to_browse' = seq_file.nodes
    /\ UNCHANGED check_raised
    /\ ReaderFrame

\* Check that the IDs exist
TargetsNonexistent ==
    /\ check_pc = "browse"
    /\ to_browse # <<>>
    /\ nonexistent_targets(targets_of(Head(to_browse)), seq_file) # {}
    /\ CheckRaise("SequenceFileError")
    /\ UNCHANGED to_browse
    /\ ReaderFrame

\* Check that the target is not a start node
TargetsStart ==
    /\ check_pc = "browse"
    /\ to_browse # <<>>
    /\ nonexistent_targets(targets_of(Head(to_browse)), seq_file) = {}
    /\ start_targets(targets_of(Head(to_browse)), seq_file) # {}
    /\ CheckRaise("SequenceFileError")
    /\ UNCHANGED to_browse
    /\ ReaderFrame

\* The transitions of the node are right: the next node is browsed
TargetsRight ==
    /\ check_pc = "browse"
    /\ to_browse # <<>>
    /\ nonexistent_targets(targets_of(Head(to_browse)), seq_file) = {}
    /\ start_targets(targets_of(Head(to_browse)), seq_file) = {}
    /\ to_browse' = Tail(to_browse)
    /\ UNCHANGED <<check_pc, check_raised>>
    /\ ReaderFrame

\* Every node was browsed: the check returns
CheckReturn ==
    /\ check_pc = "browse"
    /\ to_browse = <<>>
    /\ check_pc' = "done"
    /\ UNCHANGED <<to_browse, check_raised>>
    /\ ReaderFrame

ReaderNext ==
    \/ FileNotFound
    \/ FileFound
    \/ ValidateFails
    \/ ValidatePasses
    \/ IdsNotUnique
    \/ IdsUnique
    \/ TargetsNonexistent
    \/ TargetsStart
    \/ TargetsRight
    \/ CheckReturn

ReaderSpec == ReaderInit /\ [][ReaderNext]_vars

-----------------------------------------------------------------------------
(* functiongrabber.py: FunctionGrabber.  The directory tree is the one of the
   tests, func_dir, with one more file in a sub-directory that bears the name
   of a file of the root; what each file defines at top level is drawn.
   Wrappers are sub-classes of NodeWrapper, written with a list of bases *)

MaxFiles == 2

PyFiles ==
    {"func_dir/file1.py", "func_dir/file2.py", "func_dir/sub/file1.py"}

\* os.path.split(file_path)[0]
file_dir(file_path) ==
    IF file_path = "func_dir/sub/file1.py" THEN "func_dir/sub" ELSE "func_dir"

\* os.path.splitext(file_name)[0]
file_name_no_ext(file_path) ==
    IF file_path = "func_dir/file2.py" THEN "file2" ELSE "file1"

FunctionNames == {"function_1_1", "function_redundant"}

WrapperNames == {"WrapperOneOne"}

\* The directory trees: not a directory, or at most MaxFiles python files,
\* each with the names it defines at top level by `def` and by `class`
Directories ==
    LET FileContents ==
            [function : SUBSET FunctionNames, class : SUBSET WrapperNames]
        Trees == {P \in SUBSET PyFiles : Cardinality(P) <= MaxFiles}
    IN  {[is_dir |-> FALSE, files |-> <<>>]} \cup
        {[is_dir |-> TRUE, files |-> f] :
            f \in UNION {[P -> FileContents] : P \in Trees}}

\* re.findall of "^def (name|...|)\s*\(" or "^class (name|...|)\s*\(" in the
\* file, as a set
search_items_in_file(file_path, item_set, item_type) ==
    directory.files[file_path][item_type] \cap item_set

\* The files of os.walk(directory) in which item_name has been found
found_in(item_name, item_set, item_type) ==
    {file_path \in DOMAIN directory.files :
        item_name \in search_items_in_file(file_path, item_set, item_type)}

counter_dict(item_set, item_type) ==
    [i \in item_set |-> Cardinality(found_in(i, item_set, item_type))]

\* The file an item has been found in.  An item found in several files
\* keeps the last one, and no import is reached then
location_dict(item_set, item_type) ==
    [i \in item_set |->
        IF found_in(i, item_set, item_type) = {} THEN "None"
        ELSE CHOOSE file_path \in found_in(i, item_set, item_type) : TRUE]

non_unique_items(item_set, item_type) ==
    {i \in item_set : counter_dict(item_set, item_type)[i] > 1}

not_found_items(item_set, item_type) ==
    {i \in item_set : counter_dict(item_set, item_type)[i] = 0}

\* sys.path.append(file_dir).  A directory already on the path is found at
\* its first place, so it is kept once
sys_path_append(path, dir) ==
    IF \E i \in DOMAIN path : path[i] = dir THEN path ELSE Append(path, dir)

\* import_module(name): the module of that name already loaded, else the
\* file of that name in the first directory of sys.path that holds one
import_module(path, modules, name) ==
    IF name \in DOMAIN modules THEN modules[name]
    ELSE LET File(d) == {p \in DOMAIN directory.files :
                            file_dir(p) = d /\ file_name_no_ext(p) = name}
             first == CHOOSE i \in DOMAIN path :
                         /\ File(path[i]) # {}
                         /\ \A j \in 1..(i - 1) : File(path[j]) = {}
         IN  CHOOSE p \in File(path[first]) : TRUE

\* The attributes of a loaded module that are functions or classes
ModuleItems(mod) ==
    directory.files[mod]["function"] \cup directory.files[mod]["class"]

\* A function or a class object: the file it comes from and its name
Callable(mod, item_name) == [module |-> mod, name |-> item_name]

\* _import_items: the loop importing the items, in the order the set is
\* iterated.  getattr raises AttributeError, which is not caught
RECURSIVE import_loop(_, _, _)
import_loop(order, locations, st) ==
    IF order = <<>> \/ st.exc # "none" THEN st
    ELSE LET item_name == Head(order)
             file_path == locations[item_name]
             path == sys_path_append(st.sys_path, file_dir(file_path))
             name == file_name_no_ext(file_path)
             mod == import_module(path, st.sys_modules, name)
             modules == DictSet(st.sys_modules, name, mod)
         IN  IF item_name \in ModuleItems(mod)
             THEN import_loop(Tail(order), locations,
                     [exc |-> "none", sys_path |-> path,
                      sys_modules |-> modules,
                      imported_items |-> DictSet(st.imported_items, item_name,
                                             Callable(mod, item_name))])
             ELSE [exc |-> "AttributeError", sys_path |-> path,
                   sys_modules |-> modules,
                   imported_items |-> st.imported_items]

\* Mutant of import_items: existence is checked before uniqueness
import_items_ExistenceFirst(item_set, item_type, order) ==
    LET st == [exc |-> "none", sys_path |-> sys_path,
               sys_modules |-> sys_modules, imported_items |-> EmptyDict]
    IN  IF ~directory.is_dir
        THEN [st EXCEPT !.exc = "NotADirectoryError"]
        ELSE IF not_found_items(item_set, item_type) # {}
        THEN [st EXCEPT !.exc = "ItemExistenceError"]
        ELSE IF non_unique_items(item_set, item_type) # {}
        THEN [st EXCEPT !.exc = "ItemUniquenessError"]
        ELSE import_loop(order, location_dict(item_set, item_type), st)

\* _import_items(directory, item_set, item_type)
import_items(item_set, item_type, order) ==
    LET st == [exc |-> "none", sys_path |-> sys_path,
               sys_modules |-> sys_modules, imported_items |-> EmptyDict]
    IN  IF ~directory.is_dir
        THEN [st EXCEPT !.exc = "NotADirectoryError"]
        ELSE IF non_unique_items(item_set, item_type) # {}
        THEN [st EXCEPT !.exc = "ItemUniquenessError"]
        ELSE IF not_found_items(item_set, item_type) # {}
        THEN [st EXCEPT !.exc = "ItemExistenceError"]
        ELSE import_loop(order, location_dict(item_set, item_type), st)

\* The orders in which a set can be iterated
Orders(S) ==
    {o \in [1..Cardinality(S) -> S] : \A x \in S : \E i \in DOMAIN o : o[i] = x}

\* FunctionGrabber.__init__
GrabberInit ==
    /\ NoRun /\ NoInvocation /\ NoCheck /\ NoNode
    /\ directory \in Directories
    /\ sys_path = <<>>
    /\ sys_modules = EmptyDict
    /\ imported_functions = EmptyDict
    /\ imported_wrappers = EmptyDict
    /\ grab_call = [op |-> "none"]

GrabberFrame ==
    UNCHANGED <<runner_vars, node_vars, reader_vars, property_vars, directory>>

GrabCall(op, args, exc, ret) ==
    [op |-> op, args |-> args, exc |-> exc, ret |-> ret]

ImportFunctions ==
    \E func_set \in SUBSET FunctionNames : \E order \in Orders(func_set) :
        LET r == import_items(func_set, "function", order)
        IN  /\ sys_path' = r.sys_path
            /\ sys_modules' = r.sys_modules
            /\ imported_functions' =
                   IF r.exc = "none" THEN r.imported_items
                   ELSE imported_functions
            /\ grab_call' = GrabCall("import_functions", func_set, r.exc, PyNone)
            /\ UNCHANGED imported_wrappers
            /\ GrabberFrame

ImportWrappers ==
    \E wrapper_set \in SUBSET WrapperNames : \E order \in Orders(wrapper_set) :
        LET r == import_items(wrapper_set, "class", order)
        IN  /\ sys_path' = r.sys_path
            /\ sys_modules' = r.sys_modules
            /\ imported_wrappers' =
                   IF r.exc = "none" THEN r.imported_items
                   ELSE imported_wrappers
            /\ grab_call' = GrabCall("import_wrappers", wrapper_set, r.exc, PyNone)
            /\ UNCHANGED imported_functions
            /\ GrabberFrame

GetFunction ==
    \E func_name \in FunctionNames :
        /\ grab_call' =
               IF func_name \notin DOMAIN imported_functions
               THEN GrabCall("get_function", {func_name}, "UnknownItem", PyNone)
               ELSE GrabCall("get_function", {func_name}, "none",
                             imported_functions[func_name])
        /\ UNCHANGED <<sys_path, sys_modules, imported_functions,
                       imported_wrappers>>
        /\ GrabberFrame

GetWrappers ==
    \E wrapper_names \in SUBSET WrapperNames :
        /\ grab_call' =
               IF \E name \in wrapper_names : name \notin DOMAIN imported_wrappers
               THEN GrabCall("get_wrappers", wrapper_names, "UnknownItem", PyNone)
               ELSE GrabCall("get_wrappers", wrapper_names, "none",
                        [k \in DOMAIN imported_wrappers \cap wrapper_names |->
                            imported_wrappers[k]])
        /\ UNCHANGED <<sys_path, sys_modules, imported_functions,
                       imported_wrappers>>
        /\ GrabberFrame

GrabberNext ==
    \/ ImportFunctions
    \/ ImportWrappers
    \/ GetFunction
    \/ GetWrappers

GrabberSpec == GrabberInit /\ [][GrabberNext]_vars

-----------------------------------------------------------------------------
(* nodes.py: Node and its property previous_node_id, as a runner uses it:
   the id of the node that led to this one is saved, then read *)

MaxNid == 2
MaxAccesses == 3

\* The ids a sequence gives to its nodes, from 0 on
NodeIds == {PyInt(n) : n \in 0..MaxNid}

\* bool(value) of None and of an int
PyTruth(value) == value # PyNone /\ value # PyInt(0)

\* Node.__init__
PropertyInit ==
    /\ NoRun /\ NoInvocation /\ NoCheck /\ NoGrab
    /\ node_obj \in {[nid |-> nid, name |-> name, previous_node_id |-> PyNone] :
                        nid \in 0..MaxNid, name \in {PyNone, PyStr("node")}}
    /\ accesses = <<>>

PropertyFrame ==
    UNCHANGED <<runner_vars, node_vars, reader_vars, grabber_vars>>

Access(op, value, exc) == [op |-> op, value |-> value, exc |-> exc]

\* previous_node_id.setter
SetPrevious ==
    \E value \in NodeIds \cup {PyNone} :
        /\ Len(accesses) < MaxAccesses
        /\ node_obj' = [node_obj EXCEPT !.previous_node_id = value]
        /\ accesses' = Append(accesses, Access("set", value, "none"))
        /\ PropertyFrame

\* previous_node_id, the getter: "if self._previous_node_id"
GetPrevious ==
    /\ Len(accesses) < MaxAccesses
    /\ accesses' = Append(accesses,
            IF PyTruth(node_obj.previous_node_id)
            THEN Access("get", node_obj.previous_node_id, "none")
            ELSE Access("get", PyNone, "PreviousNodeUndefined"))
    /\ UNCHANGED node_obj
    /\ PropertyFrame

PropertyNext == SetPrevious \/ GetPrevious

PropertySpec == PropertyInit /\ [][PropertyNext]_vars

-----------------------------------------------------------------------------
(* Properties of the sequence file used by the claims *)

\* The nodes one transition away from a node of S
Successors(S) ==
    {seq.transitions[i].target : i \in
        {j \in DOMAIN seq.transitions : seq.transitions[j].source \in S}}

RECURSIVE ReachableIn(_, _)
ReachableIn(S, k) ==
    IF k = 0 THEN S ELSE ReachableIn(S \cup Successors(S), k - 1)

\* The nodes that can be reached from n by one transition or more
After(n) == ReachableIn(Successors({n}), Cardinality(DOMAIN seq.nodes))

LoopFree == \A n \in DOMAIN seq.nodes : n \notin After(n)

StopReachable ==
    \E s \in get_start_node_ids : \E n \in After(s) \cap DOMAIN seq.nodes :
        seq.nodes[n].type = "stop"

FunctionNodes == {n \in DOMAIN seq.nodes : seq.nodes[n].type = "function"}

\* The process of function node n delivers a result: the function returns or
\* raises, or a timeout runs
Delivers(n) ==
    \/ HasTimeout(seq.nodes[n].timeout)
    \/ Call(seq.nodes[n].function, seq.nodes[n].arguments).kind # "hang"

Results == variables["results"]
Started(n) == \E p \in DOMAIN procs : procs[p].node_id = n
Ended == pc \in {"done", "raised"}

-----------------------------------------------------------------------------
(* C1 *)

\* C1 as stated: the run of a finite, loop-free sequence with a reachable
\* Stop node ends with status = STOPPED.
C1_EndsStopped ==
    (LoopFree /\ StopReachable /\ Ended) => status = "STOPPED"

\* C1 as amended: for a finite, loop-free sequence with a reachable Stop node
\* whose function processes all deliver a result, run() terminates under fair
\* scheduling for every interleaving: it returns with status = STOPPED or it
\* raises, and then the status is still RUNNING.
C1_Terminates ==
    /\ (LoopFree /\ StopReachable /\ (\A n \in FunctionNodes : Delivers(n)))
            ~> Ended
    /\ [](pc = "done" => status = "STOPPED")
    /\ [](pc = "raised" => status = "RUNNING" /\ raised # "none")

\* A loop-free sequence with parallel branches has run to its end
C1_Witness ==
    /\ LoopFree /\ StopReachable /\ \A n \in FunctionNodes : Delivers(n)
    /\ pc = "done" /\ status = "STOPPED"
    /\ Len(handled) >= 4

-----------------------------------------------------------------------------
(* Steps of run(), as the claims speak of them *)

\* The step takes new_node, a node of the given type, out of the new nodes
DispatchOf(new_node, type) ==
    /\ pc = "drain"
    /\ new_node \in new_nodes_iter
    /\ new_nodes_iter' = new_nodes_iter \ {new_node}
    /\ get_node_type(new_node.node_id) = PyStr(type)

\* The step handles the result at the head of the result queue
Handling == pc = "start" /\ result_queue # <<>> /\ handled' # handled

\* The step resolves the transitions that leave node n
ResolvesFrom(n) ==
    \/ \E new_node \in new_nodes_iter :
        /\ new_node.node_id = n
        /\ \/ DispatchOf(new_node, "start")
           \/ DispatchOf(new_node, "parallel_split")
           \/ DispatchOf(new_node, "parallel_sync")
                /\ parallel_sync_history'[n] = {}
    \/ Handling /\ Head(result_queue).node_id = n
                /\ n \in DOMAIN running_nodes

\* The variables the step gives to the resolution
ResolutionVars == IF pc = "start" THEN variables' ELSE variables

\* The new nodes the step adds with n as their previous node
AddedNodes(n) == {m \in new_nodes' \ new_nodes : m.previous_node_id = PyInt(n)}

\* The transitions that leave n
Outgoing(n) ==
    {i \in DOMAIN seq.transitions : seq.transitions[i].source = n}

\* Every condition on a transition that leaves n evaluates to a boolean
CondsOk(n, vs) ==
    \A i \in Outgoing(n) :
        seq.transitions[i].condition.k # "none"
            => Eval(seq.transitions[i].condition, vs).t = "bool"

\* The transitions that leave n and have no condition or a true one
FulfilledOf(n, vs) ==
    {i \in Outgoing(n) :
        \/ seq.transitions[i].condition.k = "none"
        \/ Eval(seq.transitions[i].condition, vs) = PyBool(TRUE)}

\* The targets of the fulfilled transitions that leave n
FulfilledTargets(n, vs) ==
    {seq.transitions[i].target : i \in FulfilledOf(n, vs)}

HandledOf(n) == \E i \in DOMAIN handled : handled[i].node_id = n
Completed(n) ==
    \E p \in DOMAIN procs : procs[p].node_id = n /\ procs[p].state = "done"

-----------------------------------------------------------------------------
(* C2 *)

\* C2: whenever a parallel_sync node is dispatched, its outgoing transition is
\* resolved (a successor is added, or the resolution raises) if and only if
\* the recorded history, the arriving previous node included, equals the set
\* of the nodes with a transition to it; the history is cleared when it fires,
\* so that the next firing needs every inbound node again, and it is the
\* recorded arrivals otherwise.
C2_SyncFiresOnCompleteBarrier ==
    [][\A new_node \in new_nodes_iter :
        DispatchOf(new_node, "parallel_sync") =>
            LET nnid == new_node.node_id
                inbound == {PyInt(n) : n \in get_all_prev_node_ids(nnid)}
                recorded ==
                    (IF nnid \in DOMAIN parallel_sync_history
                     THEN parallel_sync_history[nnid] ELSE {})
                    \cup {new_node.previous_node_id}
                fired == raised' # raised \/ AddedNodes(nnid) # {}
            IN  /\ fired <=> recorded = inbound
                /\ parallel_sync_history'[nnid] =
                        IF recorded = inbound THEN {} ELSE recorded
                /\ Cardinality(AddedNodes(nnid)) <= 1]_vars

\* The barrier of the sequence with a loop has completed a second time
C2_Witness ==
    /\ seq.name = "parallel_loop"
    /\ Cardinality({p \in DOMAIN procs : procs[p].node_id = 5}) = 2
    /\ 4 \in DOMAIN parallel_sync_history
    /\ parallel_sync_history[4] = {}

-----------------------------------------------------------------------------
(* C3 *)

\* C3: in Start -> Func(2) -> ParallelSplit -> {Func(3), Func(4)} ->
\* ParallelSync -> Func(5) -> Stop, whatever the order in which the processes
\* complete, 3 and 4 are started only once the result of 2 is handled, 5 only
\* once the results of 3 and 4 are handled, the run does not raise, and when
\* it returns the four nodes have a result whose timestamps are in that order.
C3_ParallelOrder ==
    seq.name = "simple_parallel" =>
        /\ pc # "raised"
        /\ (Started(3) \/ Started(4)) => HandledOf(2)
        /\ Started(5) => HandledOf(3) /\ HandledOf(4)
        /\ pc = "done" =>
            /\ {2, 3, 4, 5} \subseteq DOMAIN Results
            /\ \A n \in {2, 3, 4, 5} : ~Results[n].exception.is_raised
            /\ Results[3].returned.n > Results[2].returned.n
            /\ Results[4].returned.n > Results[2].returned.n
            /\ Results[5].returned.n > Results[3].returned.n
            /\ Results[5].returned.n > Results[4].returned.n

\* The parallel sequence has run to its end, 4 having completed before 3
C3_Witness ==
    /\ seq.name = "simple_parallel"
    /\ pc = "done"
    /\ {2, 3, 4, 5} \subseteq DOMAIN Results
    /\ Results[4].returned.n < Results[3].returned.n

-----------------------------------------------------------------------------
(* C4 *)

\* C4 as stated: a run that meets a Variable node whose assignations contain
\* a read-only name ("results" or a constant) ends raising ReadOnlyError.
\* (In the sequences concerned the Variable node follows the Start node.)
C4_ReadOnlyError ==
    \A n \in DOMAIN seq.nodes :
        (/\ seq.nodes[n].type \in {"variable", "seq_var"}
         /\ AssignedNames(seq.nodes[n].assignations) \cap read_only_var # {}
         /\ Ended)
            => raised = "ReadOnlyError"

-----------------------------------------------------------------------------
(* C5 *)

\* C5: a record of the results is filed under the id of the function node it
\* is the result of, and only a function node that was started has one; when
\* run() has returned, every function node whose process completed has its
\* record.
C5_OneRecordPerCompletedNode ==
    /\ \A n \in DOMAIN Results :
        /\ n \in FunctionNodes
        /\ Started(n)
        /\ Results[n].node_id = n
        /\ HandledOf(n)
    /\ pc = "done" =>
        \A n \in FunctionNodes : Completed(n) => n \in DOMAIN Results

\* A run has returned with a function node completed and another one never
\* activated
C5_Witness ==
    /\ pc = "done"
    /\ \E n \in FunctionNodes : Completed(n) /\ n \in DOMAIN Results
    /\ \E n \in FunctionNodes : ~Started(n) /\ n \notin DOMAIN Results

-----------------------------------------------------------------------------
(* C6 *)

\* C6 as stated: once the result of a function node that declares a return
\* variable is handled, the variable of that name holds the value the result
\* returned.
C6_ReturnVariableSet ==
    \A i \in DOMAIN handled :
        LET node == seq.nodes[handled[i].node_id] IN
        node.return # <<>> =>
            /\ node.return[1] \in DOMAIN variables
            /\ variables[node.return[1]] = handled[i].returned

-----------------------------------------------------------------------------
(* C7 *)

\* C7: a step of the process of a function node (the function returns or
\* raises, the sub-process delivers, the timeout expires) leaves the variables
\* of the runner as they are; the variables change only when a result is
\* handled, and then nothing changes but the record filed under the id of the
\* node in results.
C7_WorkersLeaveVariablesAlone ==
    [][/\ (\E p \in DOMAIN procs : procs'[p] # procs[p])
            => variables' = variables
       /\ variables' # variables => Handling
       /\ Handling =>
            LET new_result == Head(result_queue) IN
            /\ DOMAIN variables' = DOMAIN variables
            /\ \A k \in DOMAIN variables \ {"results"} :
                    variables'[k] = variables[k]
            /\ DOMAIN Results' = DOMAIN Results \cup {new_result.node_id}
            /\ \A n \in DOMAIN Results \ {new_result.node_id} :
                    Results'[n] = Results[n]
            /\ Results'[new_result.node_id] = new_result]_vars

\* The result of a function that raised is handled after the result of a
\* function that timed out, in a run that has a constant
C7_Witness ==
    /\ seq.name = "timeout"
    /\ Len(handled) = 2
    /\ handled[1].exception.name = PyStr("NodeFunctionTimeout")
    /\ handled[2].exception.name = PyStr("RuntimeError")
    /\ {1, 2} \subseteq DOMAIN Results
    /\ variables["spam"] = PyStr("egg")

-----------------------------------------------------------------------------
(* C8 *)

\* The result r says what the call of the function of its node did
Captured(r) ==
    LET node == seq.nodes[r.node_id]
        out == Call(node.function, node.arguments)
    IN  /\ out.kind = "raise" =>
            \/ r.exception = ExceptInfo(TRUE, PyStr(out.exc))
            \/ /\ HasTimeout(node.timeout)
               /\ r.exception = ExceptInfo(TRUE, PyStr("NodeFunctionTimeout"))
        /\ out.kind = "hang" =>
            r.exception = ExceptInfo(TRUE, PyStr("NodeFunctionTimeout"))
        /\ r.exception.is_raised => r.returned = PyNone

\* C8: the exception or the timeout of a function is recorded in the result
\* of its node; handling such a result does not make run() raise: as after a
\* success the result is saved and, when the fulfilled transitions of the node
\* lead to one target, that target is added to the new nodes.  In the
\* sequence Func(1: times out) -> Func(2: raises) -> Func(3) -> Stop the run
\* never raises and returns with the result of 3.
C8_ErrorsDoNotAbort ==
    /\ [](\A i \in DOMAIN handled : Captured(handled[i]))
    /\ [][Handling =>
            LET r == Head(result_queue)
                targets == FulfilledTargets(r.node_id, variables')
            IN  (/\ r.exception.is_raised
                 /\ r.node_id \in DOMAIN running_nodes
                 /\ CondsOk(r.node_id, variables')
                 /\ Cardinality(targets) = 1)
                    => /\ Results'[r.node_id] = r
                       /\ raised' = "none"
                       /\ pc' = "loop"
                       /\ \A t \in targets :
                            NewNode(t, PyInt(r.node_id)) \in new_nodes']_vars
    /\ [](seq.name = "timeout" =>
            /\ pc # "raised"
            /\ pc = "done" =>
                /\ Results[1].exception.is_raised
                /\ Results[2].exception.is_raised
                /\ Results[3] =
                    NodeResult(3, ExceptInfo(FALSE, PyNone),
                               PyStr("Hello world!")))

\* The run has returned after a timeout and an exception
C8_Witness ==
    /\ seq.name = "timeout"
    /\ pc = "done"
    /\ Results[1].exception = ExceptInfo(TRUE, PyStr("NodeFunctionTimeout"))
    /\ Results[2].exception = ExceptInfo(TRUE, PyStr("RuntimeError"))
    /\ 3 \in DOMAIN Results

-----------------------------------------------------------------------------
(* C9 *)

-----------------------------------------------------------------------------
(* C10 *)

\* C10: when a node, a parallel split included, resolves its transitions and
\* none of them is fulfilled, run() raises NoTransitionError and no node is
\* added to the new nodes; once run() has raised it does nothing more,
\* whatever the processes still do.
C10_NoTransitionIsFatal ==
    [][/\ pc = "raised" =>
            UNCHANGED <<pc, raised, status, variables, new_nodes,
                        running_nodes, parallel_sync_history, handled>>
       /\ \A n \in DOMAIN seq.nodes :
            (/\ ResolvesFrom(n)
             /\ CondsOk(n, ResolutionVars)
             /\ FulfilledOf(n, ResolutionVars) = {})
                => /\ raised' = "NoTransitionError"
                   /\ pc' = "raised"
                   /\ new_nodes' \subseteq new_nodes]_vars

\* A parallel split without a fulfilled transition has made run() raise
C10_Witness ==
    /\ raised = "NoTransitionError"
    /\ pc = "raised"
    /\ \E n \in DOMAIN seq.nodes :
        /\ seq.nodes[n].type = "parallel_split"
        /\ Outgoing(n) # {}
        /\ FulfilledOf(n, variables) = {}
        /\ \A m \in new_nodes : m.previous_node_id # PyInt(n)


-----------------------------------------------------------------------------
(* What the claims about one invocation of a Function node need *)

\* The positions of the history at which user code of this kind is called
CallsOf(ops) == {i \in DOMAIN calls : calls[i].op \in ops}

\* The calls of constructors and of pre(), in the order they were made
PreCalls == SelectSeq(calls, LAMBDA c : c.op \in {"init", "pre"})

\* What the n-th call of the pre-phase is when the wrappers are taken in the
\* declared order, each wrapper being constructed and then its pre() called
DeclaredPreCall(n) ==
    [op |-> IF n % 2 = 1 THEN "init" ELSE "pre",
     who |-> self.wrappers_desc[(n + 1) \div 2].wrapper_name]

\* The pre() of this wrapper was called and did not raise
PreDidSucceed(who) ==
    /\ \E i \in CallsOf({"pre"}) : calls[i].who = who
    /\ ~(pre_exc # PyNone /\ pre_exc.name = "NodeWrapperPreError"
                          /\ pre_exc.wrapper_name = who)

\* The pre-phase went through every wrapper without an exception
PrePhaseComplete(upto) ==
    /\ Cardinality({i \in CallsOf({"pre"}) : i < upto})
            = Len(self.wrappers_desc)
    /\ pre_exc = PyNone

\* The function has returned or raised before this position of the history
FunctionEndedBefore(upto) == \E i \in CallsOf({"end"}) : i < upto

\* The wait for the function ended on the timeout
TimeoutExpired ==
    /\ func_res.set
    /\ func_res.func_exc = FunctionException("NodeFunctionTimeout")

C11_PreInDeclaredOrder ==
    /\ Len(PreCalls) <= 2 * Len(self.wrappers_desc)
    /\ \A n \in DOMAIN PreCalls :
            /\ PreCalls[n].op = DeclaredPreCall(n).op
            /\ PreCalls[n].who = DeclaredPreCall(n).who

C11_FunctionAfterPre ==
    \A i \in CallsOf({"call"}) :
        /\ PrePhaseComplete(i)
        /\ \A j \in CallsOf({"init", "pre"}) : j < i

C11_PostOnlyAfterPreSucceeded ==
    \A i \in CallsOf({"post"}) :
        /\ PreDidSucceed(calls[i].who)
        /\ \A j \in CallsOf({"init", "pre", "call"}) : j < i

\* C11, as stated: the wrappers are constructed and their pre() called in
\* the declared order, the body of the function runs after the pre-phase and
\* is over before the post-phase, and post() is called only on wrappers whose
\* pre() succeeded
C11_StrictlySequential ==
    /\ C11_PreInDeclaredOrder
    /\ C11_FunctionAfterPre
    /\ C11_PostOnlyAfterPreSucceeded
    /\ \A i \in CallsOf({"post"}) :
            CallsOf({"call"}) # {} => FunctionEndedBefore(i)

\* C11, amended: the wrappers are constructed and their pre() called in the
\* declared order, the function is called only after a complete pre-phase,
\* post() is called only on wrappers whose pre() succeeded, and a post() is
\* called only once the function has returned or raised or, under a timeout,
\* once the timeout expired, the function then possibly still running
C11_PhasesInOrder ==
    /\ C11_PreInDeclaredOrder
    /\ C11_FunctionAfterPre
    /\ C11_PostOnlyAfterPreSucceeded
    /\ \A i \in CallsOf({"post"}) :
            CallsOf({"call"}) # {} =>
                FunctionEndedBefore(i) \/ TimeoutExpired

\* Two wrappers, the function and both post() have run, in this order
C11_Witness ==
    /\ run_pc = "done"
    /\ Len(self.wrappers_desc) = 2
    /\ Len(PreCalls) = 4
    /\ Cardinality(CallsOf({"post"})) = 2
    /\ \E c \in CallsOf({"call"}), e \in CallsOf({"end"}) :
            c < e /\ \A i \in CallsOf({"post"}) : e < i


-----------------------------------------------------------------------------
(* C12 *)

\* The function nodes the sequence file declares as tests
TestNodes == {n \in FunctionNodes : seq.nodes[n].is_test}

\* A handled result that is not a success
FailedNodes == {handled[i].node_id : i \in
                    {j \in DOMAIN handled : handled[j].exception.is_raised}}

\* C12 as stated: when the result of a test node is not a success, run()
\* ends raising TestSequenceFailed, and it raises it only once the sequence
\* has been run to its end; it raises it in no other case.
C12_TestFailureRaisesAtEnd ==
    /\ (Ended /\ TestNodes \cap FailedNodes # {})
            => raised = "TestSequenceFailed"
    /\ raised = "TestSequenceFailed"
            => status = "STOPPED" /\ TestNodes \cap FailedNodes # {}

-----------------------------------------------------------------------------
(* C13 *)

\* The function of process p has not completed
NotCompleted(p) == procs[p].sub = "running" /\ procs[p].sub_result_queue = <<>>

\* The result of a timeout: the error of the function is NodeFunctionTimeout
\* and nothing is returned
IsTimeoutResult(r, node_id) ==
    /\ r.node_id = node_id
    /\ r.exception = ExceptInfo(TRUE, PyStr("NodeFunctionTimeout"))
    /\ r.returned = PyNone

\* The process of a node ends while its function has not completed: it
\* delivers the result of a timeout and leaves the function running
ExpiryDelivers ==
    \A p \in DOMAIN procs :
        (/\ procs[p].state = "running" /\ NotCompleted(p)
         /\ procs'[p].state = "done")
            => /\ result_queue' # <<>>
               /\ IsTimeoutResult(result_queue'[Len(result_queue')],
                                  procs[p].node_id)
               /\ Len(result_queue') = Len(result_queue) + 1
               /\ procs'[p].sub = "running"

-----------------------------------------------------------------------------
(* C14 *)

\* The place of a wrapper in the declaration of the node
DeclaredIndex(who) ==
    CHOOSE i \in DOMAIN self.wrappers_desc :
        self.wrappers_desc[i].wrapper_name = who

\* What becomes of the wrapper declared at place k when it is constructed
\* and run against these variables: the stage that raises and the cause
WrapperFate(k, vs) ==
    LET w == self.wrappers_desc[k]
        ev == evaluate_kwargs(w.wrapper_kwargs, vs)
        made == Construct(w.wrapper_name, ev.kwargs)
    IN  IF ev.exc # "none"
        THEN [error |-> "NodeWrapperInitError", cause |-> ev.exc]
        ELSE IF made.exc # "none"
        THEN [error |-> "NodeWrapperInitError", cause |-> made.exc]
        ELSE IF Pre(made.obj).exc # "none"
        THEN [error |-> "NodeWrapperPreError", cause |-> Pre(made.obj).exc]
        ELSE [error |-> "none", cause |-> "none"]

\* The wrappers that fail when they are taken in the declared order
FailingWrappers == {k \in DOMAIN self.wrappers_desc :
                        WrapperFate(k, run_variables).error # "none"}

\* C14: when the run is over and some wrapper failed at its construction, at
\* the evaluation of its arguments or in its pre(), no wrapper declared after
\* the first one that failed was constructed or run, the function was not
\* called, and the result delivered returns None, has no error of the function
\* and has as error of the wrappers a NodeWrapperInitError or a
\* NodeWrapperPreError, after the stage that raised, that holds the name of the
\* wrapper and the cause.
C14_PreFailureSkipsFunction ==
    (run_pc = "done" /\ FailingWrappers # {}) =>
        LET k == CHOOSE i \in FailingWrappers :
                    \A j \in FailingWrappers : i <= j
            fate == WrapperFate(k, run_variables)
            result == node_result_queue[1]
        IN  /\ \A i \in CallsOf({"init", "pre"}) :
                    DeclaredIndex(calls[i].who) <= k
            /\ CallsOf({"call"}) = {}
            /\ result.returned = PyNone
            /\ result.exception # PyNone
            /\ result.exception.function = PyNone
            /\ result.exception.wrappers =
                    [name |-> fate.error, nid |-> self.nid,
                     wrapper_name |-> self.wrappers_desc[k].wrapper_name,
                     cause |-> fate.cause]

\* The first wrapper succeeded and its post() was run, the second one failed
\* in its pre(), and the result is delivered
C14_Witness ==
    /\ run_pc = "done"
    /\ Len(self.wrappers_desc) = 2
    /\ FailingWrappers = {2}
    /\ WrapperFate(2, run_variables).error = "NodeWrapperPreError"
    /\ Cardinality(CallsOf({"post"})) = 1
    /\ Len(node_result_queue) = 1


-----------------------------------------------------------------------------
(* C15 *)

\* The variables once the assignations are made one after the other, each
\* expression evaluated against the variables as they are by then
RECURSIVE AssignInOrder(_, _)
AssignInOrder(ass, vs) ==
    IF ass = <<>> THEN vs
    ELSE AssignInOrder(Tail(ass),
                       DictSet(vs, Head(ass)[1], Eval(Head(ass)[2], vs)))

\* C15 as stated: the step that takes a Variable node whose names are all
\* writable out of the new nodes makes its assignations in order, each
\* expression evaluated against the current variables, and adds the single
\* successor of the node to the new nodes, the run going on.
C15_VariableNodeAssigns ==
    [][\A new_node \in new_nodes_iter :
        LET n == new_node.node_id IN
        (/\ DispatchOf(new_node, "variable")
         /\ AssignedNames(seq.nodes[n].assignations) \cap read_only_var = {})
            => /\ variables' =
                    AssignInOrder(seq.nodes[n].assignations, variables)
               /\ AddedNodes(n) =
                    {NewNode(t, PyInt(n)) : t \in FulfilledTargets(n, variables')}
               /\ Cardinality(AddedNodes(n)) = 1
               /\ pc' # "raised"]_vars

-----------------------------------------------------------------------------
(* C18 *)

\* The values the activations of function node n returned, in the order the
\* results were handled
ReturnedBy(n) ==
    LET of_n == SelectSeq(handled, LAMBDA r : r.node_id = n)
    IN  [i \in DOMAIN of_n |-> of_n[i].returned]

\* C18 as stated: a function is given the values of its arguments, evaluated
\* against the variables current when the node is activated; the loop
\* Variable(counter = counter + 1) -> Function(arg = counter) that runs until
\* counter == 10 ends with the function having received 1, 2, ..., 10 in
\* this order.
C18_ArgumentsEvaluated ==
    /\ seq = SeqArgumentExpression =>
            \A i \in DOMAIN handled :
                handled[i].returned = Eval(Name("spam"), variables)
    /\ (seq = SeqSimpleLoop /\ Ended) =>
            /\ raised = "none"
            /\ ReturnedBy(3) = [i \in 1..10 |-> PyInt(i)]


-----------------------------------------------------------------------------
(* C16 *)

\* Some condition on a transition that leaves n evaluates to a value that is
\* not a boolean, and none fails to evaluate
NotBoolean(n, vs) ==
    /\ \E i \in Outgoing(n) :
            /\ seq.transitions[i].condition.k # "none"
            /\ Eval(seq.transitions[i].condition, vs).t \notin {"bool", "error"}
    /\ \A i \in Outgoing(n) :
            seq.transitions[i].condition.k # "none"
                => Eval(seq.transitions[i].condition, vs).t # "error"

\* The transitions that leave n and have no condition
Unconditional(n) ==
    {i \in Outgoing(n) : seq.transitions[i].condition.k = "none"}

\* C16: whenever the transitions that leave a node are resolved, a condition
\* that evaluates to a value that is not a boolean makes run() raise
\* ConditionError, no successor being added, and when the resolution raises
\* nothing the target of every transition without condition is among the new
\* nodes; once run() has raised, the run is over.
C16_ConditionKinds ==
    [][/\ \A n \in DOMAIN seq.nodes :
            ResolvesFrom(n) =>
                /\ NotBoolean(n, ResolutionVars)
                        => /\ pc' = "raised" /\ raised' = "ConditionError"
                           /\ AddedNodes(n) = {}
                /\ pc' # "raised"
                        => \A i \in Unconditional(n) :
                                NewNode(seq.transitions[i].target, PyInt(n))
                                    \in new_nodes'
       /\ pc = "raised" => pc' = "raised" /\ raised' = raised]_vars

\* The result of a function node was handled and the condition on the
\* transition that leaves it, which is the integer 1, made run() raise
C16_Witness ==
    /\ pc = "raised" /\ raised = "ConditionError"
    /\ handled # <<>>
    /\ NotBoolean(handled[Len(handled)].node_id, variables)
    /\ new_nodes = {}

-----------------------------------------------------------------------------
(* C17 *)

\* C17: the step that takes a parallel_split node out of the new nodes, the
\* conditions on its transitions being booleans and one of them at least
\* fulfilled, adds exactly the targets of the fulfilled transitions, each with
\* the split node as previous node, and nothing else.
C17_SplitAddsFulfilledTargets ==
    [][\A new_node \in new_nodes_iter :
        LET n == new_node.node_id IN
        (/\ DispatchOf(new_node, "parallel_split")
         /\ CondsOk(n, variables)
         /\ FulfilledTargets(n, variables) # {})
            => /\ new_nodes' = (new_nodes \ {new_node}) \cup
                    {NewNode(t, PyInt(n)) : t \in FulfilledTargets(n, variables)}
               /\ pc' # "raised"]_vars

\* The split with a true, a false and no condition has added two of its
\* three targets
C17_Witness ==
    /\ seq = SeqSplitSomeFulfilled
    /\ {NewNode(2, PyInt(1)), NewNode(4, PyInt(1))} \subseteq new_nodes
    /\ NewNode(3, PyInt(1)) \notin new_nodes
    /\ procs = <<>>


-----------------------------------------------------------------------------
(* C19 *)

\* What the pre() of the wrapper of this name returned
PreValue(who) ==
    Pre(CHOOSE o \in {wrapper_objects[i] : i \in DOMAIN wrapper_objects} :
            o.wrapper_name = who).value

\* The argument is written as the result of a wrapper
IsWrapperResult(e) == "k" \in DOMAIN e /\ e.k = "wrapper"

\* The arguments written as the result of a wrapper were given this result
GivenPreValues(written, given) ==
    \A a \in DOMAIN written :
        IsWrapperResult(written[a]) =>
            /\ a \in DOMAIN given
            /\ PreDidSucceed(written[a].name)
            /\ given[a] = PreValue(written[a].name)

\* C19: the value the pre() of a wrapper returned is in
\* variables['wrappers'] under the name of the wrapper as soon as the next
\* wrapper is handled and stays there; a later wrapper that is constructed,
\* and the function when it is called, are given these values for the
\* arguments written as the result of a wrapper.
C19_PreResultsReadable ==
    /\ \A i \in DOMAIN wrappers_pre_success :
            LET who == wrappers_pre_success[i] IN
            /\ "wrappers" \in DOMAIN run_variables
            /\ who \in DOMAIN run_variables["wrappers"]
            /\ run_variables["wrappers"][who] = PreValue(who)
    /\ \A i \in CallsOf({"init"}) :
            GivenPreValues(
                self.wrappers_desc[DeclaredIndex(calls[i].who)].wrapper_kwargs,
                calls[i].args)
    /\ \A i \in CallsOf({"call"}) :
            GivenPreValues(self.function_kwargs, calls[i].args)

\* WrapperSetFoo, then WrapperToCaps on the result of WrapperSetFoo, then the
\* function on the result of WrapperToCaps: it returns 'FOO'
C19_Witness ==
    /\ run_pc = "done"
    /\ wrappers_pre_success = <<"WrapperSetFoo", "WrapperToCaps">>
    /\ self.wrappers_desc[2].wrapper_kwargs =
            OneArg("text", WrapperResult("WrapperSetFoo"))
    /\ self.function_kwargs = OneArg("arg", WrapperResult("WrapperToCaps"))
    /\ node_result_queue = <<FunctionNodeResult(1, PyNone, PyStr("FOO"))>>


-----------------------------------------------------------------------------
(* C20 *)

\* Some transition of the file has a target that is the id of no node
SomeTargetUnknown ==
    \E i \in DOMAIN seq_file.nodes :
        seq_file.nodes[i].transitions # <<>> /\
        \E j \in DOMAIN seq_file.nodes[i].transitions[1] :
            \A k \in DOMAIN seq_file.nodes :
                seq_file.nodes[k].id # seq_file.nodes[i].transitions[1][j]

\* C20: the check of a sequence file that exists and has a transition whose
\* target is the id of no node ends raising SequenceFileError and never
\* returns; the check returns only for a file of which every target is the id
\* of a node.
C20_UnknownTargetRejected ==
    /\ (seq_file.is_file /\ SomeTargetUnknown)
            => /\ check_pc # "done"
               /\ check_pc = "raised" => check_raised = "SequenceFileError"
    /\ check_pc = "done" => ~SomeTargetUnknown

\* A file that conforms to the schema, with two nodes of distinct ids, of
\* which the second one has a transition to a node that does not exist: the
\* first node was browsed and the check raised at the second one
C20_Witness ==
    /\ check_pc = "raised" /\ check_raised = "SequenceFileError"
    /\ seq_file.conforms
    /\ Len(seq_file.nodes) = 2
    /\ Len(to_browse) = 1
    /\ nonexistent_targets(targets_of(Head(to_browse)), seq_file) # {}
    /\ SomeTargetUnknown


-----------------------------------------------------------------------------
(* C21 *)

\* Some transition of the file, whatever the type of the node it leaves, has
\* a start node as target
SomeTargetIsStart ==
    \E i, k \in DOMAIN seq_file.nodes :
        /\ seq_file.nodes[k].type = "start"
        /\ seq_file.nodes[i].transitions # <<>>
        /\ \E j \in DOMAIN seq_file.nodes[i].transitions[1] :
                seq_file.nodes[i].transitions[1][j] = seq_file.nodes[k].id

\* C21: the check of a sequence file that exists and has a transition whose
\* target is a start node ends raising SequenceFileError and never returns;
\* the check returns only for a file in which no transition leads to a start
\* node.
C21_StartTargetRejected ==
    /\ (seq_file.is_file /\ SomeTargetIsStart)
            => /\ check_pc # "done"
               /\ check_pc = "raised" => check_raised = "SequenceFileError"
    /\ check_pc = "done" => ~SomeTargetIsStart

\* Two start nodes of distinct ids, the second one with a transition to the
\* first one and every target being the id of a node: the first node was
\* browsed and the check raised at the second one
C21_Witness ==
    /\ check_pc = "raised" /\ check_raised = "SequenceFileError"
    /\ seq_file.conforms
    /\ Len(seq_file.nodes) = 2
    /\ \A i \in DOMAIN seq_file.nodes : seq_file.nodes[i].type = "start"
    /\ Len(to_browse) = 1
    /\ ~SomeTargetUnknown
    /\ start_targets(targets_of(Head(to_browse)), seq_file)
            = {seq_file.nodes[1].id}

-----------------------------------------------------------------------------
(* C22 *)

\* The files of the directory tree that define a name at top level
DefinedIn(name, item_type) ==
    {p \in DOMAIN directory.files : name \in directory.files[p][item_type]}

ImportEnded ==
    /\ grab_call.op \in {"import_functions", "import_wrappers"}
    /\ directory.is_dir

ImportedType == IF grab_call.op = "import_functions" THEN "function" ELSE "class"

Imported ==
    IF grab_call.op = "import_functions" THEN imported_functions
    ELSE imported_wrappers

SomeUndefined == \E n \in grab_call.args : DefinedIn(n, ImportedType) = {}

SomeAmbiguous ==
    \E n \in grab_call.args : Cardinality(DefinedIn(n, ImportedType)) > 1

\* An import that succeeded asked for names defined in exactly one file, and
\* holds for each of them the object of that file
SuccessOnlyIfUnique ==
    ImportEnded /\ grab_call.exc = "none" =>
        /\ DOMAIN Imported = grab_call.args
        /\ \A n \in grab_call.args :
               DefinedIn(n, ImportedType) = {Imported[n].module}

\* get_function gives the object imported for a name that has been imported
GetGivesImported ==
    /\ \A n \in DOMAIN imported_functions :
           /\ imported_functions[n].name = n
           /\ DefinedIn(n, "function") = {imported_functions[n].module}
    /\ grab_call.op = "get_function" =>
           \A n \in grab_call.args :
               IF n \in DOMAIN imported_functions
               THEN grab_call.exc = "none"
                    /\ grab_call.ret = imported_functions[n]
               ELSE grab_call.exc = "UnknownItem"

\* C22 as stated: an import of an existing directory that asks for a name
\* defined in no file raises ItemExistenceError, one that asks for a name
\* defined in two files or more raises ItemUniquenessError, an import
\* succeeds only if every name is defined in exactly one file and
\* get_function then returns the imported object
C22_MissingRaisesExistence ==
    /\ ImportEnded /\ SomeUndefined => grab_call.exc = "ItemExistenceError"
    /\ ImportEnded /\ SomeAmbiguous => grab_call.exc = "ItemUniquenessError"
    /\ SuccessOnlyIfUnique
    /\ GetGivesImported

\* C22, amended: uniqueness is checked first.  An import of an existing
\* directory that asks for a name defined in two files or more raises
\* ItemUniquenessError, whatever the other names; one that asks for a name
\* defined in no file, and for no name defined in several files, raises
\* ItemExistenceError; an import succeeds only if every name is defined in
\* exactly one file, and get_function then returns the imported object
C22_UniquenessFirst ==
    /\ ImportEnded /\ SomeAmbiguous => grab_call.exc = "ItemUniquenessError"
    /\ ImportEnded /\ SomeUndefined /\ ~SomeAmbiguous =>
           grab_call.exc = "ItemExistenceError"
    /\ SuccessOnlyIfUnique
    /\ GetGivesImported

\* Two functions imported from two files, then get_function returns one
C22_Witness ==
    /\ DOMAIN imported_functions = FunctionNames
    /\ grab_call.op = "get_function"
    /\ grab_call.exc = "none"
    /\ grab_call.ret = Callable("func_dir/file2.py", "function_redundant")
    /\ imported_functions["function_1_1"].module = "func_dir/file1.py"

-----------------------------------------------------------------------------
(* C23 *)

\* run() is at self._result_queue.get() and the queue is empty
Waiting ==
    /\ pc = "start"
    /\ nodes_to_start = <<>>
    /\ new_nodes = {}
    /\ running_nodes # EmptyDict
    /\ result_queue = <<>>

\* run() has not ended and cannot take a step (the bound on the number of
\* processes set aside)
Blocked == ~Ended /\ Len(procs) < MaxProcs /\ ~ENABLED Scheduler

\* C23: run() is blocked only at the read of the result queue, with no new
\* node left and some node running; and a result is read from the queue only
\* when no new node is left, every function node taken from the new nodes
\* has been started and running_nodes is not empty
C23_BlocksOnlyOnQueue ==
    /\ [](Blocked => Waiting)
    /\ [][Handling => /\ new_nodes = {}
                      /\ nodes_to_start = <<>>
                      /\ running_nodes # EmptyDict]_vars

\* run() waits for the result of a second branch after it handled the first
C23_Witness ==
    /\ Waiting
    /\ Blocked
    /\ Len(handled) = 1
    /\ Cardinality(DOMAIN running_nodes) = 1

-----------------------------------------------------------------------------
(* C24 *)

\* What the claim says of the step that handles the result new_result
HandledAsClaimed(new_result) ==
    LET nid == new_result.node_id
        targets == FulfilledTargets(nid, variables')
    IN  /\ handled' = Append(handled, new_result)
        /\ result_queue' = Tail(result_queue)
        /\ variables' = SaveResult(variables, new_result)
        /\ nid \in DOMAIN running_nodes
        /\ running_nodes' =
               [n \in DOMAIN running_nodes \ {nid} |-> running_nodes[n]]
        /\ IF CondsOk(nid, variables') /\ Cardinality(targets) = 1
           THEN /\ new_nodes' = new_nodes \cup
                       {NewNode(CHOOSE t \in targets : TRUE, PyInt(nid))}
                /\ raised' = raised
           ELSE /\ new_nodes' = new_nodes
                /\ raised' # "none"

\* C24: every step that handles a result handles the oldest result of the
\* queue and that one only, removes its node id from running_nodes, resolves
\* the transitions of the node against the variables that hold the result,
\* and adds the single next node with the node of the result as previous
\* node (or raises when the transitions give no single next node)
C24_HandledInOrder == [][Handling => HandledAsClaimed(Head(result_queue))]_vars

\* What holds of the code: the same, for a result whose node id is still in
\* running_nodes
C24_HandledWhenRunning ==
    [][Handling /\ Head(result_queue).node_id \in DOMAIN running_nodes
            => HandledAsClaimed(Head(result_queue))]_vars

\* A node reached by two parallel branches has been started twice and the
\* second result finds no entry in running_nodes
C24_SecondResultKeyError ==
    /\ raised = "KeyError"
    /\ Len(handled) >= 2
    /\ handled[Len(handled)].node_id \notin DOMAIN running_nodes
    /\ \E i \in 1..(Len(handled) - 1) :
           handled[i].node_id = handled[Len(handled)].node_id

-----------------------------------------------------------------------------
(* C25 *)

StartNodes == {n \in DOMAIN seq.nodes : seq.nodes[n].type = "start"}

\* After construction the new nodes are the start nodes, without previous
\* node
FrontierIsStartNodes ==
    pc = "init" => new_nodes = {NewNode(n, PyNone) : n \in StartNodes}

\* The dispatch of a start node with a single fulfilled target adds that
\* target with the given previous node, and nothing else
StartAdds(new_node, previous_node) ==
    LET targets == FulfilledTargets(new_node.node_id, variables)
    IN  DispatchOf(new_node, "start") /\ Cardinality(targets) = 1
        /\ CondsOk(new_node.node_id, variables)
            => new_nodes' = (new_nodes \ {new_node}) \cup
                    {NewNode(CHOOSE t \in targets : TRUE, previous_node)}

\* C25 as stated: after construction the new nodes are exactly the start
\* nodes, each without previous node, and the dispatch of a start node adds
\* its single successor without previous node
C25_SuccessorWithoutPrevious ==
    /\ []FrontierIsStartNodes
    /\ [][\A new_node \in new_nodes_iter : StartAdds(new_node, PyNone)]_vars

\* C25, amended: after construction the new nodes are exactly the start
\* nodes, each without previous node, and the dispatch of a start node adds
\* its single successor with the id of the start node as previous node
C25_SuccessorOfStart ==
    /\ []FrontierIsStartNodes
    /\ [][\A new_node \in new_nodes_iter :
            StartAdds(new_node, PyInt(new_node.node_id))]_vars

\* Two start nodes have been dispatched: the new nodes are their successors
C25_Witness ==
    /\ seq.name = "two_starts"
    /\ new_nodes = {NewNode(2, PyInt(0)), NewNode(3, PyInt(1))}

-----------------------------------------------------------------------------
(* C26 *)

SyncNodes == {n \in DOMAIN seq.nodes : seq.nodes[n].type = "parallel_sync"}

Inbound(n) ==
    {seq.transitions[i].source : i \in
        {j \in DOMAIN seq.transitions : seq.transitions[j].target = n}}

\* The number of processes started for node n
StartsOf(n) == Cardinality({p \in DOMAIN procs : procs[p].node_id = n})

\* The number of results of node n that run() has handled
HandledCount(n) ==
    Cardinality({i \in DOMAIN handled : handled[i].node_id = n})

\* A function node that follows a barrier and nothing else has been started
\* at most as many times as each function node leading to the barrier has
\* delivered a result: every crossing takes an arrival of its own from each
EveryCrossingItsArrivals ==
    \A n \in SyncNodes : \A s \in Successors({n}) : \A b \in Inbound(n) :
        /\ seq.nodes[s].type = "function" /\ Inbound(s) = {n}
        /\ seq.nodes[b].type = "function"
        => StartsOf(s) <= HandledCount(b)

\* C26: the step in which a parallel_sync node completes and its successor
\* is added leaves the history of the node empty, and every later crossing
\* of the barrier needs an arrival of its own from every inbound node; in a
\* sequence with a loop through the barrier the barrier completes again
C26_HistoryClearedOnCrossing ==
    /\ []EveryCrossingItsArrivals
    /\ [][\A n \in SyncNodes :
            AddedNodes(n) # {} => /\ n \in DOMAIN parallel_sync_history'
                                 /\ parallel_sync_history'[n] = {}]_vars

\* The barrier in the loop has been crossed twice, after two arrivals of
\* each branch
C26_Witness ==
    /\ seq.name = "parallel_loop"
    /\ StartsOf(5) = 2
    /\ HandledCount(2) = 2 /\ HandledCount(3) = 2

-----------------------------------------------------------------------------
(* C27 *)

\* The exception the evaluation of the arguments of the function raises
\* against the variables as the pre-phase left them, or "none"
KwargsError == evaluate_kwargs(self.function_kwargs, run_variables).exc

\* The post() of the wrapper declared at place k raises
PostRaises(k) == WrapperDir[self.wrappers_desc[k].wrapper_name].post = "raise"

PostCalled(k) ==
    \E i \in CallsOf({"post"}) :
        calls[i].who = self.wrappers_desc[k].wrapper_name

\* post() has been called on every wrapper up to the first one whose post()
\* raises
PostPhaseRan ==
    \A k \in DOMAIN self.wrappers_desc :
        (\A j \in 1..(k - 1) : ~PostRaises(j)) => PostCalled(k)

\* C27: when run() is over, the pre-phase succeeded and the evaluation of the
\* arguments of the function raised, the function was not called, the result
\* returns None and holds the exception as the error of the function, its
\* error of the wrappers is absent unless a post() raised, and the post-phase
\* was run
C27_KwargsFailureIsFunctionError ==
    run_pc = "done" /\ pre_exc = PyNone /\ KwargsError # "none" =>
        LET result == node_result_queue[1] IN
        /\ CallsOf({"call"}) = {}
        /\ result.returned = PyNone
        /\ result.exception # PyNone
        /\ result.exception.function = FunctionException(KwargsError)
        /\ IF \E k \in DOMAIN self.wrappers_desc : PostRaises(k)
           THEN result.exception.wrappers.name = "NodeWrapperPostError"
           ELSE result.exception.wrappers = PyNone
        /\ PostPhaseRan

\* Two wrappers ran their pre(), the arguments of the function name an
\* unknown variable, and both post() were called
C27_Witness ==
    /\ run_pc = "done" /\ pre_exc = PyNone
    /\ KwargsError = "NameError"
    /\ Len(self.wrappers_desc) = 2
    /\ Cardinality(CallsOf({"post"})) = 2
    /\ node_result_queue[1].exception.wrappers = PyNone

-----------------------------------------------------------------------------
(* C28 *)

\* Some post() that was called raised
SomePostRaised ==
    \E i \in CallsOf({"post"}) : WrapperDir[calls[i].who].post = "raise"

\* post() has been called on every wrapper whose pre() succeeded, up to the
\* first one whose post() raises
PostPhaseRanOnSucceeded ==
    \A k \in DOMAIN self.wrappers_desc :
        /\ PreDidSucceed(self.wrappers_desc[k].wrapper_name)
        /\ \A j \in 1..(k - 1) : ~PostRaises(j)
        => PostCalled(k)

\* C28: when run() is over, the error of the wrappers of the result is the
\* error of the construction or of the pre() whenever the pre-phase failed,
\* also when a post() raised; it is the error of a post() only when the
\* pre-phase did not fail; and the post-phase was run whether the function
\* was run or skipped
C28_PreErrorTakesPrecedence ==
    run_pc = "done" =>
        LET result == node_result_queue[1] IN
        /\ post_exc # PyNone <=> SomePostRaised
        /\ pre_exc # PyNone =>
               /\ result.exception.wrappers = pre_exc
               /\ pre_exc.name \in {"NodeWrapperInitError",
                                    "NodeWrapperPreError"}
        /\ pre_exc = PyNone /\ post_exc # PyNone =>
               /\ result.exception.wrappers = post_exc
               /\ post_exc.name = "NodeWrapperPostError"
        /\ pre_exc = PyNone /\ post_exc = PyNone =>
               \/ result.exception = PyNone
               \/ result.exception.wrappers = PyNone
        /\ PostPhaseRanOnSucceeded

\* The pre() of the second wrapper raised, then the post() of the first: the
\* result holds the error of the pre()
C28_Witness ==
    /\ run_pc = "done"
    /\ pre_exc # PyNone /\ pre_exc.name = "NodeWrapperPreError"
    /\ post_exc # PyNone
    /\ node_result_queue[1].exception.wrappers = pre_exc
    /\ CallsOf({"call"}) = {}

-----------------------------------------------------------------------------
(* C29 *)

\* The first wrapper, in the order of the post-phase, whose pre() succeeded
\* and whose post() raises
FirstPostFailure ==
    CHOOSE k \in DOMAIN self.wrappers_desc :
        /\ PreDidSucceed(self.wrappers_desc[k].wrapper_name) /\ PostRaises(k)
        /\ \A j \in 1..(k - 1) :
               ~(PreDidSucceed(self.wrappers_desc[j].wrapper_name)
                    /\ PostRaises(j))

\* C29: when run() is over, post() has been called on every wrapper whose
\* pre() succeeded, also on those that come after a wrapper whose post()
\* raised, and the error of the post-phase is the one of the first post()
\* that raised
C29_EveryPostAttempted ==
    run_pc = "done" =>
        /\ \A k \in DOMAIN self.wrappers_desc :
               PreDidSucceed(self.wrappers_desc[k].wrapper_name)
                    => PostCalled(k)
        /\ post_exc # PyNone =>
               post_exc = NodeWrapperPostError(self.nid,
                    self.wrappers_desc[FirstPostFailure].wrapper_name,
                    "RuntimeError")

\* What holds of the code: the error is the one of the first post() that
\* raised, and no post() is called after it
C29_StopsAtFirstFailure ==
    run_pc = "done" /\ post_exc # PyNone =>
        /\ post_exc = NodeWrapperPostError(self.nid,
                self.wrappers_desc[FirstPostFailure].wrapper_name,
                "RuntimeError")
        /\ \A k \in DOMAIN self.wrappers_desc :
               PostCalled(k) <=> k <= FirstPostFailure

\* The post() of the first of two wrappers raised and the post() of the
\* second, whose pre() succeeded, was never called
C29_PostSkipped ==
    /\ run_pc = "done"
    /\ Len(self.wrappers_desc) = 2
    /\ pre_exc = PyNone
    /\ post_exc # PyNone /\ post_exc.wrapper_name = "WrapperExcPost"
    /\ PreDidSucceed(self.wrappers_desc[2].wrapper_name)
    /\ ~PostCalled(2)

-----------------------------------------------------------------------------
(* C30 *)

\* The value the last assignment before access i has saved, None if there
\* is no assignment before it
SavedBefore(i) ==
    LET sets == {j \in 1..(i - 1) : accesses[j].op = "set"}
    IN  IF sets = {} THEN PyNone
        ELSE accesses[CHOOSE j \in sets : \A k \in sets : k <= j].value

\* C30: every read of previous_node_id returns the node id saved last,
\* whatever the id, and raises PreviousNodeUndefined only if no id is saved
C30_SavedIdIsReturned ==
    \A i \in DOMAIN accesses :
        accesses[i].op = "get" =>
            IF SavedBefore(i) \in NodeIds
            THEN accesses[i].exc = "none"
                 /\ accesses[i].value = SavedBefore(i)
            ELSE accesses[i].exc = "PreviousNodeUndefined"

\* What holds of the code: the same for every id but 0
C30_NonZeroIdIsReturned ==
    \A i \in DOMAIN accesses :
        accesses[i].op = "get" =>
            IF SavedBefore(i) \in NodeIds \ {PyInt(0)}
            THEN accesses[i].exc = "none"
                 /\ accesses[i].value = SavedBefore(i)
            ELSE accesses[i].exc = "PreviousNodeUndefined"

\* The id 0 has been saved and the read that follows raises
C30_ZeroIsUndefined ==
    /\ Len(accesses) = 2
    /\ accesses[1] = Access("set", PyInt(0), "none")
    /\ accesses[2] = Access("get", PyNone, "PreviousNodeUndefined")

-----------------------------------------------------------------------------
(* C31 *)

\* run() is inside a function that never returns and has no time limit
HangsForEver ==
    /\ run_pc = "in_function"
    /\ self.function_name = "never_return"

\* C31: the queue given to run() never holds more than one record, also
\* when the function ends in its sub-process after the timeout; it holds
\* one exactly when run() is over; and run() stops nowhere before it has put
\* its record, except inside a function without time limit that never
\* returns
C31_OneResultPerActivation ==
    /\ Len(node_result_queue) <= 1
    /\ run_pc = "done" <=> Len(node_result_queue) = 1
    /\ ~ENABLED NodeNext => run_pc = "done" \/ HangsForEver

\* The timeout expired, run() put its record, and the function then ended
\* in the sub-process: its result stays on the queue of the sub-process
C31_Witness ==
    /\ run_pc = "done"
    /\ sub_process = "done"
    /\ sub_result_queue # <<>>
    /\ Len(node_result_queue) = 1
    /\ node_result_queue[1].exception.function
            = FunctionException("NodeFunctionTimeout")
    /\ calls[Len(calls)].op = "end"

-----------------------------------------------------------------------------
(* C32 *)

\* The number of workers started for node n whose result is not handled yet
InFlight(n) == StartsOf(n) - HandledCount(n)

\* running_nodes holds exactly the function nodes with a worker in flight,
\* and no node has two
RunningAreInFlight ==
    \A n \in DOMAIN seq.nodes :
        /\ InFlight(n) <= 1
        /\ n \in DOMAIN running_nodes <=> InFlight(n) = 1

\* C32: at every point of run(), running_nodes holds exactly the function
\* nodes that have a worker whose result is not handled yet, one worker for
\* each (a node is never started while it is running); no result is received
\* for a node that is not in running_nodes; and when run() returns no worker
\* is in flight and no result is left in the queue
C32_RunningNodesAreWorkers ==
    /\ RunningAreInFlight
    /\ raised # "KeyError" \/ handled = <<>>
            \/ handled[Len(handled)].node_id \in DOMAIN running_nodes
    /\ pc = "done" =>
            /\ result_queue = <<>>
            /\ \A n \in DOMAIN seq.nodes : InFlight(n) = 0

\* What holds of the code: the same in every sequence of the catalog but the
\* one in which two parallel branches lead to one function node
C32_UnlessStartedTwice ==
    seq.name # "two_ways" =>
        /\ RunningAreInFlight
        /\ raised # "KeyError" \/ handled = <<>>
                \/ handled[Len(handled)].node_id \in DOMAIN running_nodes
        /\ pc = "done" =>
                /\ result_queue = <<>>
                /\ \A n \in DOMAIN seq.nodes : InFlight(n) = 0

\* A function node reached by two branches has two workers in flight under
\* one key of running_nodes
C32_TwoWorkersOneKey ==
    /\ seq.name = "two_ways"
    /\ InFlight(2) = 2
    /\ DOMAIN running_nodes = {2}

-----------------------------------------------------------------------------
(* C33 *)

\* C33: when run() has returned, the history of every parallel_sync node is
\* empty
C33_NoBarrierLeftWaiting ==
    pc = "done" =>
        \A n \in DOMAIN parallel_sync_history : parallel_sync_history[n] = {}

\* What holds of the code: when run() has returned no history is complete,
\* a barrier that every inbound node reached has fired and is empty again
C33_NoBarrierLeftComplete ==
    pc = "done" =>
        \A n \in DOMAIN parallel_sync_history :
            parallel_sync_history[n] # {PyInt(b) : b \in Inbound(n)}

\* run() has returned with status STOPPED while the barrier still holds the
\* arrival of one of its two inbound nodes
C33_ReturnedWithWaitingBarrier ==
    /\ seq.name = "sync_partial"
    /\ pc = "done" /\ status = "STOPPED" /\ raised = "none"
    /\ parallel_sync_history[4] = {PyInt(2)}
    /\ Inbound(4) = {2, 3}

-----------------------------------------------------------------------------
(* C34 *)

\* The step dispatches a Variable node, under either spelling of its type,
\* whose mapping names a read-only variable
DispatchOfReadOnlyWrite(new_node) ==
    /\ \/ DispatchOf(new_node, "variable")
       \/ DispatchOf(new_node, "seq_var")
    /\ AssignedNames(seq.nodes[new_node.node_id].assignations)
            \cap read_only_var # {}

C34_OtherErrorAppliesNothing ==
    [][\A new_node \in new_nodes_iter :
        DispatchOfReadOnlyWrite(new_node)
            => /\ raised' \in {"UnknownNodeTypeError", "IncompatibleNodeType"}
               /\ variables' = variables]_vars

\* The node that assigns spam, then the constant c, has been dispatched:
\* another error than ReadOnlyError is raised and spam is not assigned
C34_NotReadOnlyError ==
    /\ seq.name = "readonly_seq_var"
    /\ raised = "IncompatibleNodeType"
    /\ "spam" \notin DOMAIN variables
    /\ variables["c"] = PyInt(0)

-----------------------------------------------------------------------------
(* C35 *)

\* The arrivals a barrier can record: the ids of the sources of its inbound
\* transitions, as the runner stores them
InboundIds(n) == {PyInt(p) : p \in Inbound(n)}

\* C35: at every point of a run only ParallelSync nodes have a sync history,
\* and the history of each is a subset of its inbound set: no arrival is
\* recorded under None or under an unrelated id
C35_HistoryWithinInbound ==
    \A n \in DOMAIN parallel_sync_history :
        /\ n \in SyncNodes
        /\ parallel_sync_history[n] \subseteq InboundIds(n)

\* A barrier holds some of its arrivals and still misses one
C35_PartialHistory ==
    \E n \in DOMAIN parallel_sync_history :
        /\ parallel_sync_history[n] # {}
        /\ parallel_sync_history[n] # InboundIds(n)
        /\ new_nodes # {}

-----------------------------------------------------------------------------
(* C36 *)

-----------------------------------------------------------------------------
(* C37 *)

\* The errors of run() that the dispatch of a node or the resolution of its
\* transitions raises
RunFatal ==
    {"ReadOnlyError", "NoTransitionError", "MultipleTransitionError",
     "ConditionError", "UnknownNodeTypeError"}

\* The workers that run() started and whose result it has not handled
Pending == DOMAIN running_nodes

\* C37: the step that raises a run-fatal error leaves the status RUNNING and
\* removes no worker from running_nodes but the one whose result it was
\* handling; from then on run() sets no status, handles no result and takes
\* nothing out of running_nodes, whatever the workers still do
C37_FatalErrorLeavesRunning ==
    [][/\ (raised = "none" /\ raised' \in RunFatal) =>
            /\ status = "RUNNING" /\ status' = "RUNNING"
            /\ pc' = "raised"
            /\ IF Handling
               THEN /\ DOMAIN running_nodes' =
                        Pending \ {Head(result_queue).node_id}
                    /\ \A n \in DOMAIN running_nodes' :
                        running_nodes'[n] = running_nodes[n]
               ELSE running_nodes' = running_nodes
       /\ raised \in RunFatal =>
            /\ status' = "RUNNING"
            /\ UNCHANGED <<pc, raised, running_nodes, handled, new_nodes>>]_vars

\* run() has raised a run-fatal error while a worker it started is still
\* registered in running_nodes and has not delivered anything yet
C37_RaisedWithWorkersLeft ==
    /\ raised \in RunFatal
    /\ status = "RUNNING"
    /\ \E n \in Pending : \E p \in DOMAIN procs :
            /\ procs[p].node_id = n
            /\ procs[p].state # "done"
            /\ \A i \in DOMAIN result_queue : result_queue[i].node_id # n

-----------------------------------------------------------------------------
(* C38 *)

\* The wrappers whose pre() has succeeded in the invocation under way
PreSucceededNow ==
    {self.wrappers_desc[k].wrapper_name : k \in
        {l \in DOMAIN self.wrappers_desc :
            PreDidSucceed(self.wrappers_desc[l].wrapper_name)}}

\* The wrappers whose post() has been called in the invocation under way
PostCalledNow == {calls[i].who : i \in {j \in DOMAIN calls : calls[j].op = "post"}}

\* C38: every invocation of run() on a node object enters with no
\* pre-success flag left by an earlier one, and post() is only called on
\* wrappers whose pre() succeeded in the same invocation
C38_WrapperStatePerInvocation ==
    /\ run_pc = "run" => wrappers_pre_success = <<>>
    /\ PostCalledNow \subseteq PreSucceededNow

\* What holds of the code: the first invocation on a node as constructed has
\* the property, and every invocation starts with new wrapper objects
C38_FirstInvocationOnly ==
    /\ invocation = 1 =>
            /\ run_pc = "run" => wrappers_pre_success = <<>>
            /\ PostCalledNow \subseteq PreSucceededNow
    /\ run_pc = "pre_init" /\ cursor = self.wrappers_desc
            => wrapper_objects = <<>>

\* In the second invocation post() has been called on a wrapper whose pre()
\* has just failed: its flag is the one the first invocation left
C38_PostAfterFailedPre ==
    /\ invocation = 2
    /\ pre_exc # PyNone
    /\ \E i \in DOMAIN calls :
            /\ calls[i].op = "post"
            /\ calls[i].who \notin PreSucceededNow
            /\ \E j \in DOMAIN wrappers_pre_success :
                    wrappers_pre_success[j] = calls[i].who

-----------------------------------------------------------------------------
(* C39 *)

\* The positions of the history at which a result of node n was handled
HandledAt(n) == {i \in DOMAIN handled : handled[i].node_id = n}

\* The last of them
LastHandledAt(n) == CHOOSE i \in HandledAt(n) : \A j \in HandledAt(n) : j <= i

\* C39: at every point of a run the results hold one record for each node a
\* result of which was handled, and the record of a node is the result of
\* its last handled activation, however many were handled before and
\* whatever results of other nodes were handled since
C39_LastActivationFiled ==
    /\ DOMAIN Results = {handled[i].node_id : i \in DOMAIN handled}
    /\ \A n \in DOMAIN Results : Results[n] = handled[LastHandledAt(n)]

\* The run of a loop has returned: a node was handled twice with two
\* different results, results of other nodes were handled after its first
\* one, and each node has the record of its last activation
C39_SecondActivationFiled ==
    /\ pc = "done"
    /\ \E n \in DOMAIN Results : \E i \in HandledAt(n) :
            /\ i < LastHandledAt(n)
            /\ handled[i] # handled[LastHandledAt(n)]
            /\ \E j \in DOMAIN handled : i < j /\ handled[j].node_id # n

-----------------------------------------------------------------------------
(* C40 *)

\* The results of node n that a process has delivered so far
DeliveredOf(n) ==
    {result_queue[i] : i \in {j \in DOMAIN result_queue :
                                    result_queue[j].node_id = n}}
    \cup {handled[i] : i \in HandledAt(n)}

C40_NodeZeroTimeout ==
    self.timeout = <<0>> =>
        /\ sub_process = "none"
        /\ sub_result_queue = <<>>
        /\ (self.function_name = "never_return" /\ pre_exc = PyNone)
                => node_result_queue = <<>>

====
